---- MODULE Spec2Model ----
(***************************************************************************)
(* Real-time duel / tournament coordination engine of codemode             *)
(* (backend/src/index.ts): the in-memory registries activeDuels and        *)
(* activeHalls, the per-connection closure variables currentDuelId and     *)
(* currentTournamentHallId, and the socket event handlers that mutate      *)
(* them.  A handler runs synchronously up to its first await; every await  *)
(* that separates two accesses to engine state is a step boundary here.    *)
(***************************************************************************)
EXTENDS Integers, Sequences, FiniteSets, TLC

(***************************************************************************)
(* Bounds of the model.                                                    *)
(***************************************************************************)
\* duel rooms that can be registered in activeDuels at the same time
MaxRooms == 3
\* Date.now() % 10000 is drawn from 0..MaxNow
MaxNow == 0
\* hall event handlers that can be suspended at an await at the same time,
\* where rounds are started and where participants are kicked
MaxRoundTasks == 1
MaxKickTasks == 2
\* problem requests that can be pending at the same time where rounds replace rooms
MaxFetchTasks == 1
\* submission time offsets sent by clients are drawn from 1..MaxSubmissionTime
MaxSubmissionTime == 1
\* joinHall handlers in flight at a time, where their interleaving is the matter
MaxJoinTasks == 2
\* maxParticipants of the tournament whose capacity is the matter
MaxCapacity == 1
\* calculateElo is applied to ratings at most this far from the default rating
MaxRatingGap == 20

(***************************************************************************)
(* Program constants.                                                      *)
(***************************************************************************)
K_FACTOR == 32
DefaultRating == 1200

(***************************************************************************)
(* Identifiers.  A user id is a uuid, a tournament id a cuid; IdText gives *)
(* the leading characters of each, which is all the code ever looks at     *)
(* (String.substring in the duel id of a tournament round).  The two       *)
(* tournament ids share their first five characters, as cuids created      *)
(* within the same half hour do.                                           *)
(***************************************************************************)
\* users with a row in the User table, and a guest id an unauthenticated client sends
RegUsers == {"u1", "u2", "u3", "u4"}
GuestIds == {"g1"}
Users == RegUsers \cup GuestIds
NoUser == "-"
Tournaments == {"t1", "t2"}
NoTournament == "-"
NoSocket == "-"

\* connection ids; a socket id names one connection and is never reused
Sockets == {"s1", "s2", "s3", "s4"}

IdText(id) ==
    CASE id = "u1" -> <<"1", "a", "7", "c">>
      [] id = "u2" -> <<"2", "b", "8", "d">>
      [] id = "u3" -> <<"3", "c", "9", "e">>
      [] id = "u4" -> <<"4", "d", "0", "f">>
      [] id = "g1" -> <<"g", "u", "e", "s", "t">>
      [] id = "t1" -> <<"c", "m", "9", "x", "k", "1">>
      [] id = "t2" -> <<"c", "m", "9", "x", "k", "2">>

\* String.prototype.substring(0, n)
Substring(text, n) ==
    SubSeq(text, 1, IF n < Len(text) THEN n ELSE Len(text))

\* duel ids a client types in; a duel id is kept as the sequence of its parts
FreeDuelIds == {<<"d1">>, <<"d2">>}
NoDuel == << >>

\* `tourney-${tournamentId.substring(0, 5)}-${p1.substring(0, 3)}v${p2.substring(0, 3)}-${Date.now() % 10000}`
TourneyDuelId(tournamentId, p1UserId, p2UserId, now) ==
    <<"tourney-">> \o Substring(IdText(tournamentId), 5) \o <<"-">>
        \o Substring(IdText(p1UserId), 3) \o <<"v">>
        \o Substring(IdText(p2UserId), 3) \o <<"-">> \o <<ToString(now % 10000)>>

NowValues == 0..MaxNow

Problems == {"p1", "p2"}
\* the problem the Problem Source returns where one is enough
OneProblem == {"p1"}
NoProblem == "-"
InitialCodes == {"// Start coding...", "x"}
InitialLanguages == {"cpp"}
NoWinner == "-"
Roles == {"competitor1", "competitor2"}

(***************************************************************************)
(* DuelCompetitor and DuelRoom.  An absent slot is NoComp.  The display    *)
(* name and the wall-clock startTime are left out: no branch of the        *)
(* engine reads them.  nActivated, nFetch, nRatings, assigned and          *)
(* assignedSince are history fields: how often the room went active, how   *)
(* often a problem was requested for it, how often ratingsUpdated was      *)
(* emitted for it, the role the last joinDuel of each user id was given    *)
(* in it, the same since a competitor slot was last vacated, for each role *)
(* the user id whose disconnect forfeited the duel from that slot, and for *)
(* each role the connection that the last rejoin from another connection   *)
(* unbound from the slot.                                                  *)
(***************************************************************************)
NoComp ==
    [socketId |-> NoSocket, userId |-> NoUser, code |-> "-", language |-> "-",
     solvedProblem |-> FALSE, submissionTime |-> 0]

NewCompetitor(s, userId, code, language) ==
    [socketId |-> s, userId |-> userId, code |-> code, language |-> language,
     solvedProblem |-> FALSE, submissionTime |-> 0]

NewRoomBase(duelId, tournamentId) ==
    [duelId |-> duelId, competitor1 |-> NoComp, competitor2 |-> NoComp,
     spectators |-> {}, problem |-> NoProblem, status |-> "waiting",
     winner |-> NoWinner, tournamentId |-> tournamentId,
     nActivated |-> 0, nFetch |-> 0, nRatings |-> 0,
     assigned |-> [u \in Users |-> "none"],
     assignedSince |-> [u \in Users |-> "none"],
     forfeitedBy |-> [role \in Roles |-> NoUser],
     superseded |-> [role \in Roles |-> NoSocket]]

NewRoom(duelId, tournamentId) ==
    NewRoomBase(duelId, tournamentId)

\* in a suspended handler: its room is the one registered under its duel id
AttachedRoom ==
    [NewRoomBase(NoDuel, NoTournament) EXCEPT !.status = "attached"]

VARIABLES
    connected,                \* socket -> "unused" | "open" | "closed"
    authUser,                 \* socket -> socket.data.authUser.userId or NoUser
    currentDuelId,            \* socket -> closure variable currentDuelId
    currentTournamentHallId,  \* socket -> closure variable currentTournamentHallId
    activeDuels,              \* duel id -> DuelRoom
    activeHalls,              \* tournament id -> TournamentHall
    tournamentDb,             \* tournament id -> Tournament row
    participantDb,            \* <<tournament id, user id>> -> TournamentParticipant row
    userRating,               \* User.rating of the registered users
    duelMatches,              \* DuelMatch rows
    fetchTasks,               \* joinDuel handlers awaiting the Problem Source
    eloTasks,                 \* problemSolved handlers awaiting persistence
    hallTasks,                \* joinHall / kickFromHall / startTournamentRound handlers at an await
    out                       \* the events emitted by the last step, in order

vars ==
    <<connected, authUser, currentDuelId, currentTournamentHallId, activeDuels,
      activeHalls, tournamentDb, participantDb, userRating, duelMatches,
      fetchTasks, eloTasks, hallTasks, out>>

duelVars ==
    <<activeDuels, fetchTasks, eloTasks>>

hallVars ==
    <<activeHalls, tournamentDb, participantDb, hallTasks>>

dbRatingVars ==
    <<userRating, duelMatches>>

socketVars ==
    <<connected, authUser, currentDuelId, currentTournamentHallId>>

(***************************************************************************)
(* Emitted events.  `to` is <<"socket", id>> for socket.emit and           *)
(* io.sockets.sockets.get(id).emit, <<"room", id>> for io.to(id).emit and  *)
(* <<"others", id, sender>> for socket.to(id).emit.                        *)
(***************************************************************************)
Emit(ev, to, arg) ==
    [ev |-> ev, to |-> to, arg |-> arg]

ToSocket(s) ==
    <<"socket", s>>

ToRoom(id) ==
    <<"room", id>>

ToOthers(id, s) ==
    <<"others", id, s>>

(***************************************************************************)
(* Room objects.  A suspended handler holds a reference to its room        *)
(* object.  While that object is the one registered under the handler's    *)
(* duel id, the task's room is AttachedRoom and the handler reads and      *)
(* writes activeDuels[duelId]; when the object is deleted from activeDuels *)
(* or replaced there, the task takes the object with it (Detach) and from  *)
(* then on reads and writes its own.  A room object is held by at most one *)
(* suspended handler: a rating task starts only after the problem arrived. *)
(***************************************************************************)
TaskRoom(task) ==
    IF task.room = AttachedRoom THEN activeDuels[task.duelId] ELSE task.room

Detach(tasks, duelId, room) ==
    {IF t.duelId = duelId /\ t.room = AttachedRoom THEN [t EXCEPT !.room = room] ELSE t
        : t \in tasks}

\* a number that tells a new task from the pending ones
TaskNumber(tasks) ==
    CHOOSE n \in 0..Cardinality(tasks) : \A t \in tasks : t.n # n

\* map.set(key, value) and map.delete(key) on a function with a growing domain
\* a write that reaches every entry of the map
MapSetAll(m, k, v) ==
    [x \in DOMAIN m \cup {k} |-> v]

MapSet(m, k, v) ==
    [x \in DOMAIN m \cup {k} |-> IF x = k THEN v ELSE m[x]]

MapDelete(m, k) ==
    [x \in DOMAIN m \ {k} |-> m[x]]

(***************************************************************************)
(* The server after startup with its connections accepted:                 *)
(* io.on("connection") only sets the closure variables to null, and the    *)
(* auth middleware has set socket.data.authUser from the cookie.  Nothing  *)
(* is registered yet.  auth says who each connection is; a connection      *)
(* outside its domain is never made.                                       *)
(***************************************************************************)
InitWith(auth) ==
    /\ connected = [s \in Sockets |-> IF s \in DOMAIN auth THEN "open" ELSE "unused"]
    /\ authUser = [s \in Sockets |-> IF s \in DOMAIN auth THEN auth[s] ELSE NoUser]
    /\ currentDuelId = [s \in Sockets |-> NoDuel]
    /\ currentTournamentHallId = [s \in Sockets |-> NoTournament]
    /\ activeDuels = << >>
    /\ activeHalls = << >>
    /\ tournamentDb = << >>
    /\ participantDb = << >>
    /\ userRating = [u \in RegUsers |-> DefaultRating]
    /\ duelMatches = << >>
    /\ fetchTasks = {}
    /\ eloTasks = {}
    /\ hallTasks = {}
    /\ out = << >>

\* two logged-in users and one anonymous connection
DuelAuth ==
    [s \in {"s1", "s2", "s3"} |->
        IF s = "s1" THEN "u1" ELSE IF s = "s2" THEN "u2" ELSE NoUser]

Init ==
    InitWith(DuelAuth)

(***************************************************************************)
(* socket.on("joinDuel").  The synchronous part: identification, the       *)
(* closure variable, lazy room creation, role assignment, the emits and    *)
(* the activation guard.  An activation leaves a task awaiting the         *)
(* Problem Source (FetchDone).                                             *)
(***************************************************************************)
EffectiveUserId(s, clientUserId) ==
    IF authUser[s] # NoUser THEN authUser[s] ELSE clientUserId

\* a joinDuel that does not look for the user id in the slots
ExistingRoleNotLookedUp(room, userId) ==
    "none"

ExistingRole(room, userId) ==
    IF room.competitor1.userId = userId THEN "competitor1"
    ELSE IF room.competitor2.userId = userId THEN "competitor2"
    ELSE "none"

\* a role assignment that takes the first free slot whoever asks
AssignedRoleFirstFree(room, userId) ==
    IF room.competitor1 = NoComp THEN "competitor1"
    ELSE IF room.competitor2 = NoComp THEN "competitor2"
    ELSE "spectator"

AssignedRole(room, userId) ==
    IF ExistingRole(room, userId) # "none" THEN ExistingRole(room, userId)
    ELSE IF room.competitor1 = NoComp THEN "competitor1"
    ELSE IF room.competitor2 = NoComp THEN "competitor2"
    ELSE "spectator"

\* the room after the role assignment of lines 1055-1094
\* a rejoin that fills the slot anew from the rejoin's initial code and language
AssignRoleRejoinResets(room, s, userId, code, language) ==
    LET role == AssignedRole(room, userId)
        noted == [room EXCEPT !.assigned[userId] = role,
                              !.assignedSince[userId] = role]
    IN  IF role = "spectator"
        THEN [noted EXCEPT !.spectators = @ \cup {s}]
        ELSE [noted EXCEPT ![role] = NewCompetitor(s, userId, code, language)]

AssignRole(room, s, userId, code, language) ==
    LET role == AssignedRole(room, userId)
        noted == [room EXCEPT !.assigned[userId] = role,
                              !.assignedSince[userId] = role]
    IN  IF ExistingRole(room, userId) # "none"
        THEN [noted EXCEPT ![role].socketId = s,
                           !.superseded[role] =
                               IF room[role].socketId # s THEN room[role].socketId ELSE @]
        ELSE IF role = "spectator"
        THEN [noted EXCEPT !.spectators = @ \cup {s}]
        ELSE [noted EXCEPT ![role] = NewCompetitor(s, userId, code, language)]

BothSlots(room) ==
    room.competitor1 # NoComp /\ room.competitor2 # NoComp

CompetitorJustAddedToMakeTwo(room0, room1, userId) ==
    \/ (ExistingRole(room0, userId) = "none" /\ room0.competitor1 # NoComp
        /\ room0.competitor2 = NoComp)
    \/ (AssignedRole(room0, userId) # "spectator" /\ BothSlots(room1))

\* an activation guard that does not read the status
ActivationGuardWithoutStatus(room0, room1, userId) ==
    /\ BothSlots(room1)
    /\ (CompetitorJustAddedToMakeTwo(room0, room1, userId)
        \/ room1.problem = NoProblem)

\* a guard that looks only at the problem of the room
ActivationGuardProblemOnly(room0, room1, userId) ==
    /\ BothSlots(room1)
    /\ room1.problem = NoProblem

\* the guard of line 1177, on the room after role assignment
ActivationGuard(room0, room1, userId) ==
    /\ BothSlots(room1)
    /\ room1.status = "waiting"
    /\ (CompetitorJustAddedToMakeTwo(room0, room1, userId)
        \/ room1.problem = NoProblem)

Activate(room) ==
    [room EXCEPT !.status = "active", !.nActivated = @ + 1, !.nFetch = @ + 1]

NewFetchTask(duelId) ==
    [duelId |-> duelId, room |-> AttachedRoom, n |-> TaskNumber(fetchTasks)]

JoinDuelEmits(s, duelId, userId, role, room, activated) ==
    <<Emit("assignedRole", ToSocket(s), <<role, userId>>),
      Emit("duelState", ToSocket(s), <<room.problem, room.status>>),
      Emit("userJoined",
           IF role = "spectator" THEN ToRoom(duelId) ELSE ToOthers(duelId, s),
           <<userId, role>>)>>
    \o (IF activated
        THEN <<Emit("duelStatusUpdate", ToRoom(duelId), <<"active", NoWinner>>)>>
        ELSE IF room.problem # NoProblem
        THEN <<Emit("duelProblemAssigned", ToSocket(s), room.problem),
               Emit("duelStatusUpdate", ToSocket(s), <<room.status, room.winner>>)>>
        ELSE << >>)

JoinDuel(s, duelId, clientUserId, initialCode, initialLanguage) ==
    /\ connected[s] = "open"
    /\ LET userId == EffectiveUserId(s, clientUserId)
       IN  IF userId = NoUser
           THEN /\ out' = <<Emit("duelError", ToSocket(s), "no identification")>>
                /\ UNCHANGED <<socketVars, duelVars, hallVars, dbRatingVars>>
           ELSE /\ duelId \notin DOMAIN activeDuels
                      => Cardinality(DOMAIN activeDuels) < MaxRooms
                /\ LET room0 == IF duelId \in DOMAIN activeDuels
                                THEN activeDuels[duelId] ELSE NewRoom(duelId, NoTournament)
                       role == AssignedRole(room0, userId)
                       room1 == AssignRole(room0, s, userId, initialCode, initialLanguage)
                       activated == ActivationGuard(room0, room1, userId)
                       room2 == IF activated THEN Activate(room1) ELSE room1
                   IN  /\ currentDuelId' = [currentDuelId EXCEPT ![s] = duelId]
                       /\ activeDuels' = MapSet(activeDuels, duelId, room2)
                       /\ fetchTasks' = IF activated
                                        THEN fetchTasks \cup {NewFetchTask(duelId)}
                                        ELSE fetchTasks
                       /\ out' = JoinDuelEmits(s, duelId, userId, role, room1, activated)
                       /\ UNCHANGED <<connected, authUser, currentTournamentHallId,
                                      eloTasks, hallVars, dbRatingVars>>

(***************************************************************************)
(* The rest of an activating joinDuel, after its awaits on the Problem     *)
(* Source: result is a problem, "none" (no problem available) or "error"   *)
(* (the fetch threw).  The handler writes through its own reference to     *)
(* the room object.                                                        *)
(***************************************************************************)
FetchResults == Problems \cup {"none", "error"}

\* a failed retrieval that puts the room back to waiting
AttachProblemOrRollBack(room, result) ==
    IF result \in Problems THEN [room EXCEPT !.problem = result]
    ELSE [room EXCEPT !.status = "waiting"]

\* lines 1239-1241: room.problem is set only when a problem was obtained
AttachProblem(room, result) ==
    IF result \in Problems THEN [room EXCEPT !.problem = result] ELSE room

FetchDone(task, result) ==
    /\ task \in fetchTasks
    /\ fetchTasks' = fetchTasks \ {task}
    /\ activeDuels' = IF task.room = AttachedRoom
                      THEN [activeDuels EXCEPT ![task.duelId] = AttachProblem(@, result)]
                      ELSE activeDuels
    /\ out' = IF result \in Problems
              THEN <<Emit("duelProblemAssigned", ToRoom(task.duelId), result)>>
              ELSE <<Emit("duelError", ToRoom(task.duelId), result)>>
    /\ UNCHANGED <<socketVars, eloTasks, hallVars, dbRatingVars>>

(***************************************************************************)
(* socket.on("disconnect"): the hall branch, then the duel branch, both    *)
(* keyed by the closure variables of the disconnecting socket.             *)
(***************************************************************************)
\* a hall branch that removes the user's entry whatever connection it is bound to
HallAfterDisconnectByUserId(hall, s, userId) ==
    IF userId \in DOMAIN hall.participants
    THEN [hall EXCEPT !.participants = MapDelete(@, userId)]
    ELSE hall

\* hall.participants after the hall branch
HallAfterDisconnect(hall, s, userId) ==
    IF userId \in DOMAIN hall.participants /\ hall.participants[userId] = s
    THEN [hall EXCEPT !.participants = MapDelete(@, userId)]
    ELSE hall

DisconnectHallApplies(s) ==
    /\ currentTournamentHallId[s] # NoTournament
    /\ authUser[s] # NoUser
    /\ currentTournamentHallId[s] \in DOMAIN activeHalls

HallsAfterDisconnect(s) ==
    IF DisconnectHallApplies(s)
    THEN [activeHalls EXCEPT ![currentTournamentHallId[s]] =
              HallAfterDisconnect(@, s, authUser[s])]
    ELSE activeHalls

DisconnectHallEmits(s) ==
    IF DisconnectHallApplies(s) /\ HallsAfterDisconnect(s) # activeHalls
    THEN <<Emit("userLeftHall", ToRoom(currentTournamentHallId[s]), authUser[s])>>
    ELSE << >>

\* the role whose competitor is bound to socket s ("none" if neither)
\* the slot of the user logged in on the connection, whichever connection holds it
RoleOfSocketByUserId(room, s) ==
    IF authUser[s] # NoUser /\ room.competitor1.userId = authUser[s] THEN "competitor1"
    ELSE IF authUser[s] # NoUser /\ room.competitor2.userId = authUser[s] THEN "competitor2"
    ELSE "none"

RoleOfSocket(room, s) ==
    IF room.competitor1.socketId = s THEN "competitor1"
    ELSE IF room.competitor2.socketId = s THEN "competitor2"
    ELSE "none"

OtherRole(role) ==
    IF role = "competitor1" THEN "competitor2" ELSE "competitor1"

\* lines 1779-1795: the slot is deleted; an active duel is forfeited
\* a forfeit that finishes the duel and names nobody
VacateSlotNoWinner(room, role) ==
    LET vacated == [room EXCEPT ![role] = NoComp,
                                !.assignedSince = [u \in Users |-> "none"]]
    IN  IF room.status = "active"
        THEN [vacated EXCEPT !.status = "finished",
                             !.forfeitedBy[role] = room[role].userId]
        ELSE vacated

\* a disconnect that empties the slot and leaves the status as it is
VacateSlotKeepStatus(room, role) ==
    [room EXCEPT ![role] = NoComp,
                 !.assignedSince = [u \in Users |-> "none"]]

VacateSlot(room, role) ==
    LET vacated == [room EXCEPT ![role] = NoComp,
                                !.assignedSince = [u \in Users |-> "none"],
                                !.superseded[role] = NoSocket]
    IN  IF room.status = "active"
        THEN [vacated EXCEPT !.status = "finished",
                             !.winner = room[OtherRole(role)].userId,
                             !.forfeitedBy[role] = room[role].userId]
        ELSE vacated

RoomAfterDisconnect(room, s) ==
    LET role == RoleOfSocket(room, s)
        r1 == IF role # "none" THEN VacateSlot(room, role) ELSE room
    IN  [r1 EXCEPT !.spectators = @ \ {s}]

RoomIsEmpty(room) ==
    room.competitor1 = NoComp /\ room.competitor2 = NoComp /\ room.spectators = {}

DisconnectDuelEmits(room, s, duelId) ==
    LET role == RoleOfSocket(room, s)
        after == RoomAfterDisconnect(room, s)
    IN  (IF role # "none" /\ room.status = "active"
         THEN <<Emit("duelEnded", ToRoom(duelId),
                     <<after.winner, "finished", room[role].userId>>)>>
         ELSE << >>)
        \o (IF role # "none"
            THEN <<Emit("userLeft", ToRoom(duelId), <<room[role].userId, role>>)>>
            ELSE IF s \in room.spectators
            THEN <<Emit("userLeft", ToRoom(duelId),
                        <<IF authUser[s] # NoUser THEN authUser[s]
                          ELSE "spectator-" \o s, "spectator">>)>>
            ELSE << >>)

Disconnect(s) ==
    /\ connected[s] = "open"
    /\ connected' = [connected EXCEPT ![s] = "closed"]
    /\ activeHalls' = HallsAfterDisconnect(s)
    /\ LET duelId == currentDuelId[s]
       IN  IF duelId # NoDuel /\ duelId \in DOMAIN activeDuels
           THEN LET after == RoomAfterDisconnect(activeDuels[duelId], s)
                IN  /\ out' = DisconnectHallEmits(s)
                                \o DisconnectDuelEmits(activeDuels[duelId], s, duelId)
                    /\ IF RoomIsEmpty(after)
                       THEN /\ activeDuels' = MapDelete(activeDuels, duelId)
                            /\ fetchTasks' = Detach(fetchTasks, duelId, after)
                            /\ eloTasks' = Detach(eloTasks, duelId, after)
                       ELSE /\ activeDuels' = [activeDuels EXCEPT ![duelId] = after]
                            /\ UNCHANGED <<fetchTasks, eloTasks>>
           ELSE /\ out' = DisconnectHallEmits(s)
                /\ UNCHANGED <<activeDuels, fetchTasks, eloTasks>>
    /\ UNCHANGED <<authUser, currentDuelId, currentTournamentHallId, tournamentDb,
                   participantDb, hallTasks, dbRatingVars>>

(***************************************************************************)
(* calculateElo.  The code computes in IEEE doubles; here the same         *)
(* formula is computed in fixed point (eight decimals, 32-bit safe), which *)
(* gives the same rounded ratings for every rating difference up to 1200.  *)
(* A score is passed doubled (0, 1, 2 for 0, 0.5, 1) to stay in integers.  *)
(***************************************************************************)
FixedOne == 100000000
\* 10^(-1/400) in fixed point
TenthRoot400 == 99426007

FixedMul(a, b) ==
    LET a1 == a \div 10000
        a0 == a % 10000
        b1 == b \div 10000
        b0 == b % 10000
    IN  a1 * b1 + (a1 * b0 + a0 * b1) \div 10000 + (a0 * b0) \div FixedOne

RECURSIVE FixedPow(_, _)
FixedPow(base, n) ==
    IF n = 0 THEN FixedOne
    ELSE LET h == FixedPow(FixedMul(base, base), n \div 2)
         IN  IF n % 2 = 1 THEN FixedMul(base, h) ELSE h

Abs(x) ==
    IF x < 0 THEN -x ELSE x

\* expectedA = 1 / (1 + 10^((ratingB - ratingA) / 400)) as a fraction num / den
ExpectedNum(ratingA, ratingB) ==
    (IF ratingB - ratingA >= 0
     THEN FixedPow(TenthRoot400, Abs(ratingB - ratingA))
     ELSE FixedOne) \div 100

ExpectedDen(ratingA, ratingB) ==
    (FixedOne + FixedPow(TenthRoot400, Abs(ratingB - ratingA))) \div 100

\* a new rating of A that counts every score as a win
NewRatingAAsWin(ratingA, ratingB, scoreAx2) ==
    ratingA + ((K_FACTOR * 2 + 1) * ExpectedDen(ratingA, ratingB)
               - 2 * K_FACTOR * ExpectedNum(ratingA, ratingB))
              \div (2 * ExpectedDen(ratingA, ratingB))

\* a new rating of B that is the old one
NewRatingBUnchanged(ratingA, ratingB, scoreAx2) ==
    ratingB

\* Math.round(ratingA + K_FACTOR * (scoreA - expectedA)), Math.round(x) = floor(x + 1/2)
NewRatingA(ratingA, ratingB, scoreAx2) ==
    ratingA + ((K_FACTOR * scoreAx2 + 1) * ExpectedDen(ratingA, ratingB)
               - 2 * K_FACTOR * ExpectedNum(ratingA, ratingB))
              \div (2 * ExpectedDen(ratingA, ratingB))

\* Math.round(ratingB + K_FACTOR * (scoreB - expectedB)), scoreB = 1 - scoreA, expectedB = 1 - expectedA
NewRatingB(ratingA, ratingB, scoreAx2) ==
    ratingB + (2 * K_FACTOR * ExpectedNum(ratingA, ratingB)
               - (K_FACTOR * scoreAx2 - 1) * ExpectedDen(ratingA, ratingB))
              \div (2 * ExpectedDen(ratingA, ratingB))

calculateElo(ratingA, ratingB, scoreAx2) ==
    [newRatingA |-> NewRatingA(ratingA, ratingB, scoreAx2),
     newRatingB |-> NewRatingB(ratingA, ratingB, scoreAx2)]

\* a call of calculateElo: its arguments, and its result once it has returned
EloCall(ratingA, ratingB, scoreAx2) ==
    [duelId |-> NoDuel, room |-> AttachedRoom, n |-> 0, c1 |-> NoUser, c2 |-> NoUser,
     pc |-> "call", old1 |-> ratingA, old2 |-> ratingB, new1 |-> 0, new2 |-> 0,
     score1x2 |-> scoreAx2]

\* the call returns
CalculateElo(call) ==
    /\ call \in eloTasks /\ call.pc = "call"
    /\ LET elo == calculateElo(call.old1, call.old2, call.score1x2)
       IN  eloTasks' = (eloTasks \ {call}) \cup
               {[call EXCEPT !.pc = "return", !.new1 = elo.newRatingA,
                             !.new2 = elo.newRatingB]}
    /\ out' = << >>
    /\ UNCHANGED <<socketVars, activeDuels, fetchTasks, hallVars, dbRatingVars>>

\* a guard that accepts a solve whatever the status of the room
SolvedGuardWithoutStatus(duelId, role, userId) ==
    /\ duelId \in DOMAIN activeDuels
    /\ activeDuels[duelId][role] # NoComp
    /\ activeDuels[duelId][role].userId = userId

(***************************************************************************)
(* socket.on("problemSolved").  The synchronous part marks the competitor  *)
(* solved and, when the room has no winner yet, names the winner and       *)
(* finishes the duel; the rating update that follows is a task with one    *)
(* step per awaited persistence call.                                      *)
(***************************************************************************)
SolvedGuard(duelId, role, userId) ==
    /\ duelId \in DOMAIN activeDuels
    /\ activeDuels[duelId].status = "active"
    /\ activeDuels[duelId][role] # NoComp
    /\ activeDuels[duelId][role].userId = userId

MarkSolved(room, role, submissionTime) ==
    [room EXCEPT ![role].solvedProblem = TRUE,
                 ![role].submissionTime = submissionTime]

\* a first solve that names the winner and leaves the duel running
SetWinnerKeepStatus(room, userId) ==
    IF room.winner = NoWinner THEN [room EXCEPT !.winner = userId] ELSE room

\* line 1303: first solver wins
SetWinner(room, userId) ==
    IF room.winner = NoWinner
    THEN [room EXCEPT !.winner = userId, !.status = "finished"]
    ELSE room

\* line 1316: if (c1 && c2 && room.problem)
RatingDue(room) ==
    BothSlots(room) /\ room.problem # NoProblem

NewEloTask(duelId, room) ==
    [duelId |-> duelId, room |-> AttachedRoom, n |-> TaskNumber(eloTasks),
     c1 |-> room.competitor1.userId, c2 |-> room.competitor2.userId,
     pc |-> "find1", old1 |-> 0, old2 |-> 0, new1 |-> 0, new2 |-> 0, score1x2 |-> 0]

ProblemSolved(s, duelId, userId, role, submissionTime) ==
    /\ connected[s] = "open"
    /\ IF ~SolvedGuard(duelId, role, userId)
       THEN /\ out' = << >>
            /\ UNCHANGED <<activeDuels, eloTasks>>
       ELSE LET room1 == MarkSolved(activeDuels[duelId], role, submissionTime)
                first == room1.winner = NoWinner
                room2 == SetWinner(room1, userId)
            IN  /\ eloTasks' = IF first /\ RatingDue(room2)
                               THEN eloTasks \cup {NewEloTask(duelId, room2)}
                               ELSE eloTasks
                /\ activeDuels' = [activeDuels EXCEPT ![duelId] = room2]
                /\ out' = <<Emit("competitorSolved", ToRoom(duelId),
                                 <<userId, role, submissionTime>>)>>
                          \o (IF first
                              THEN <<Emit("duelEnded", ToRoom(duelId),
                                          <<userId, "finished", NoUser>>)>>
                              ELSE << >>)
    /\ UNCHANGED <<socketVars, fetchTasks, hallVars, dbRatingVars>>

\* a failure after which the handler goes on to the match record and the broadcast
EloEndGoesOn(task) ==
    eloTasks' = (eloTasks \ {task}) \cup {[task EXCEPT !.pc = "create"]}

\* the task ends: a persistence call threw (the catch of line 1370) or a user row is missing
EloEnd(task) ==
    eloTasks' = eloTasks \ {task}

EloAdvance(task, next) ==
    eloTasks' = (eloTasks \ {task}) \cup {next}

\* await prisma.user.findUnique({ where: { id: c1.userId } })
EloFind1(task, ok) ==
    /\ task \in eloTasks /\ task.pc = "find1"
    /\ IF ok
       THEN EloAdvance(task, [task EXCEPT !.pc = "find2",
                !.old1 = IF task.c1 \in RegUsers THEN userRating[task.c1] ELSE 0])
       ELSE EloEnd(task)
    /\ out' = << >>
    /\ UNCHANGED <<socketVars, activeDuels, fetchTasks, hallVars, dbRatingVars>>

\* a score that calls every duel a draw
Score1x2AlwaysDraw(room, c1, c2) ==
    1

\* the score of line 1325, read from the room when the second lookup returns
Score1x2(room, c1, c2) ==
    IF room.winner = c1 THEN 2 ELSE IF room.winner = c2 THEN 0 ELSE 1

\* await prisma.user.findUnique({ where: { id: c2.userId } }), then calculateElo
EloFind2(task, ok) ==
    /\ task \in eloTasks /\ task.pc = "find2"
    /\ IF ok /\ task.c1 \in RegUsers /\ task.c2 \in RegUsers
       THEN LET old2 == userRating[task.c2]
                sc == Score1x2(TaskRoom(task), task.c1, task.c2)
                elo == calculateElo(task.old1, old2, sc)
            IN  EloAdvance(task, [task EXCEPT !.pc = "update1", !.old2 = old2,
                    !.score1x2 = sc, !.new1 = elo.newRatingA, !.new2 = elo.newRatingB])
       ELSE EloEnd(task)
    /\ out' = << >>
    /\ UNCHANGED <<socketVars, activeDuels, fetchTasks, hallVars, dbRatingVars>>

\* await prisma.user.update({ where: { id: c1.userId }, data: { rating: newRating1 } })
EloUpdate1(task, ok) ==
    /\ task \in eloTasks /\ task.pc = "update1"
    /\ IF ok
       THEN /\ EloAdvance(task, [task EXCEPT !.pc = "update2"])
            /\ userRating' = [userRating EXCEPT ![task.c1] = task.new1]
       ELSE EloEnd(task) /\ UNCHANGED userRating
    /\ out' = << >>
    /\ UNCHANGED <<socketVars, activeDuels, fetchTasks, hallVars, duelMatches>>

\* await prisma.user.update({ where: { id: c2.userId }, data: { rating: newRating2 } })
EloUpdate2(task, ok) ==
    /\ task \in eloTasks /\ task.pc = "update2"
    /\ IF ok
       THEN /\ EloAdvance(task, [task EXCEPT !.pc = "create"])
            /\ userRating' = [userRating EXCEPT ![task.c2] = task.new2]
       ELSE EloEnd(task) /\ UNCHANGED userRating
    /\ out' = << >>
    /\ UNCHANGED <<socketVars, activeDuels, fetchTasks, hallVars, duelMatches>>

MatchRecord(task, room) ==
    [duelId |-> room.duelId, problem |-> room.problem,
     playerOneId |-> task.c1, playerTwoId |-> task.c2,
     playerOneScorex2 |-> task.score1x2, playerTwoScorex2 |-> 2 - task.score1x2,
     playerOneOldRating |-> task.old1, playerOneNewRating |-> task.new1,
     playerTwoOldRating |-> task.old2, playerTwoNewRating |-> task.new2]

RatingsUpdated(task, room) ==
    Emit("ratingsUpdated", ToRoom(room.duelId),
         <<task.c1, task.old1, task.new1, task.c2, task.old2, task.new2>>)

\* await prisma.duelMatch.create(...), then io.to(room.duelId).emit("ratingsUpdated", ...)
EloCreate(task, ok) ==
    /\ task \in eloTasks /\ task.pc = "create"
    /\ eloTasks' = eloTasks \ {task}
    /\ IF ok
       THEN /\ duelMatches' = Append(duelMatches, MatchRecord(task, TaskRoom(task)))
            /\ activeDuels' = IF task.room = AttachedRoom
                              THEN [activeDuels EXCEPT ![task.duelId].nRatings = @ + 1]
                              ELSE activeDuels
            /\ out' = <<RatingsUpdated(task, TaskRoom(task))>>
       ELSE /\ out' = << >>
            /\ UNCHANGED <<duelMatches, activeDuels>>
    /\ UNCHANGED <<socketVars, fetchTasks, hallVars, userRating>>

(***************************************************************************)
(* socket.on("codeUpdate") and socket.on("languageUpdate").                *)
(***************************************************************************)
\* an authorization that compares the user id only
UpdateAuthorizedByUserId(duelId, s, role, userId) ==
    /\ duelId \in DOMAIN activeDuels
    /\ role \in Roles
    /\ activeDuels[duelId][role].userId = userId

\* lines 1390-1394 and 1418-1422; room.competitors[data.role] is undefined for
\* a role that is not a competitor role
UpdateAuthorized(duelId, s, role, userId) ==
    /\ duelId \in DOMAIN activeDuels
    /\ role \in Roles
    /\ activeDuels[duelId][role].socketId = s
    /\ activeDuels[duelId][role].userId = userId

CodeUpdate(s, duelId, userId, role, code) ==
    /\ connected[s] = "open"
    /\ IF UpdateAuthorized(duelId, s, role, userId)
       THEN /\ activeDuels' = [activeDuels EXCEPT ![duelId][role].code = code]
            /\ out' = <<Emit("competitorCodeUpdated", ToRoom(duelId),
                             <<userId, role, code>>)>>
       ELSE /\ out' = << >>
            /\ UNCHANGED activeDuels
    /\ UNCHANGED <<socketVars, fetchTasks, eloTasks, hallVars, dbRatingVars>>

LanguageUpdate(s, duelId, userId, role, language) ==
    /\ connected[s] = "open"
    /\ IF UpdateAuthorized(duelId, s, role, userId)
       THEN /\ activeDuels' = [activeDuels EXCEPT ![duelId][role].language = language]
            /\ out' = <<Emit("competitorLanguageUpdated", ToRoom(duelId),
                             <<userId, role, language>>)>>
       ELSE /\ out' = << >>
            /\ UNCHANGED activeDuels
    /\ UNCHANGED <<socketVars, fetchTasks, eloTasks, hallVars, dbRatingVars>>

(***************************************************************************)
(* Mutation.createTournament: the Tournament row is created PENDING with   *)
(* pairingSystem RANDOM, then the hall is registered.  maxParticipants 0   *)
(* stands for "not given" (the code tests it for truthiness).              *)
(***************************************************************************)
NewTournamentRow(organizerId, maxParticipants) ==
    [organizerId |-> organizerId, status |-> "PENDING",
     pairingSystem |-> "RANDOM", maxParticipants |-> maxParticipants]

NewHall(organizerId) ==
    [organizerId |-> organizerId, participants |-> << >>]

CreateTournament(t, organizerId, maxParticipants) ==
    /\ t \notin DOMAIN tournamentDb
    /\ tournamentDb' = MapSet(tournamentDb, t, NewTournamentRow(organizerId, maxParticipants))
    /\ activeHalls' = MapSet(activeHalls, t, NewHall(organizerId))
    /\ out' = << >>
    /\ UNCHANGED <<socketVars, duelVars, participantDb, hallTasks, dbRatingVars>>

(***************************************************************************)
(* Handlers of hall events that are suspended at an await.  One record     *)
(* shape serves joinHall, kickFromHall and startTournamentRound:           *)
(*   s, t        the socket and the tournament id of the event             *)
(*   hall        whether activeHalls.get(t) found a hall before the await  *)
(*   status, max the Tournament row as read by the handler (its snapshot)  *)
(*   target      kickFromHall: the target user id; kicked: the socket the  *)
(*               removed participant was bound to                          *)
(*   hallAtCall  joinHall, history: the hall the connection remembered     *)
(*               when the event arrived                                    *)
(***************************************************************************)
HallTask(kind, s, t, pc) ==
    [kind |-> kind, s |-> s, t |-> t, pc |-> pc,
     hall |-> t \in DOMAIN activeHalls, status |-> "-", max |-> 0,
     target |-> NoUser, kicked |-> NoSocket, hallAtCall |-> NoTournament]

HallTaskStep(task, next) ==
    hallTasks' = (hallTasks \ {task}) \cup {next}

HallTaskEnd(task) ==
    hallTasks' = hallTasks \ {task}

Callback(s, success, error) ==
    Emit("callback", ToSocket(s), <<success, error>>)

(***************************************************************************)
(* socket.on("joinHall").                                                  *)
(***************************************************************************)
NewJoinHallTask(s, t) ==
    [HallTask("joinHall", s, t, "findTournament") EXCEPT
        !.hallAtCall = currentTournamentHallId[s]]

JoinHall(s, t) ==
    /\ connected[s] = "open"
    /\ IF authUser[s] = NoUser
       THEN /\ out' = <<Callback(s, FALSE, "Authentication required.")>>
            /\ UNCHANGED hallTasks
       ELSE /\ NewJoinHallTask(s, t) \notin hallTasks
            /\ hallTasks' = hallTasks \cup {NewJoinHallTask(s, t)}
            /\ out' = << >>
    /\ UNCHANGED <<socketVars, duelVars, activeHalls, tournamentDb, participantDb,
                   dbRatingVars>>

\* after await prisma.tournament.findUnique: lines 1459-1473
JoinHallFindTournament(task) ==
    /\ task \in hallTasks /\ task.kind = "joinHall" /\ task.pc = "findTournament"
    /\ IF ~task.hall \/ task.t \notin DOMAIN tournamentDb
       THEN /\ out' = <<Callback(task.s, FALSE, "Tournament hall not found.")>>
            /\ HallTaskEnd(task)
            /\ UNCHANGED currentTournamentHallId
       ELSE IF tournamentDb[task.t].status \in {"COMPLETED", "CANCELLED"}
       THEN /\ out' = <<Callback(task.s, FALSE, "Tournament not active.")>>
            /\ HallTaskEnd(task)
            /\ UNCHANGED currentTournamentHallId
       ELSE /\ currentTournamentHallId' =
                   [currentTournamentHallId EXCEPT ![task.s] = task.t]
            /\ HallTaskStep(task, [task EXCEPT !.pc = "findParticipant",
                   !.status = tournamentDb[task.t].status,
                   !.max = tournamentDb[task.t].maxParticipants])
            /\ out' = << >>
    /\ UNCHANGED <<connected, authUser, currentDuelId, duelVars, activeHalls,
                   tournamentDb, participantDb, dbRatingVars>>

\* a registration that leaves an entry the user already has as it is
RegisterParticipantKeepFirst(hall, userId, s) ==
    IF userId \in DOMAIN hall.participants THEN hall
    ELSE [hall EXCEPT !.participants = MapSet(@, userId, s)]

\* lines 1546-1567: the participant is registered under the caller's user id
RegisterParticipant(hall, userId, s) ==
    [hall EXCEPT !.participants = MapSet(@, userId, s)]

RegisterEmits(task, hall) ==
    <<Emit("hallState", ToSocket(task.s), <<task.t, hall.organizerId>>),
      Emit("userJoinedHall", ToRoom(task.t), <<authUser[task.s], task.s>>),
      Callback(task.s, TRUE, "")>>

\* the isActive test of line 1540 and what follows it, for a record that exists
JoinHallFinish(task) ==
    /\ HallTaskEnd(task)
    /\ IF participantDb[<<task.t, authUser[task.s]>>] # "active"
       THEN /\ out' = <<Callback(task.s, FALSE, "Not an active participant.")>>
            /\ UNCHANGED activeHalls
       ELSE /\ activeHalls' = [activeHalls EXCEPT ![task.t] =
                   RegisterParticipant(@, authUser[task.s], task.s)]
            /\ out' = RegisterEmits(task, activeHalls[task.t])

\* after await prisma.tournamentParticipant.findUnique: lines 1482-1538
JoinHallFindParticipant(task) ==
    /\ task \in hallTasks /\ task.kind = "joinHall" /\ task.pc = "findParticipant"
    /\ IF <<task.t, authUser[task.s]>> \in DOMAIN participantDb
       THEN JoinHallFinish(task)
       ELSE IF task.status = "PENDING"
       THEN /\ HallTaskStep(task, [task EXCEPT !.pc =
                   IF task.max # 0 THEN "count" ELSE "create"])
            /\ out' = << >>
            /\ UNCHANGED activeHalls
       ELSE /\ out' = <<Callback(task.s, FALSE, "Tournament already started/finished.")>>
            /\ HallTaskEnd(task)
            /\ UNCHANGED activeHalls
    /\ UNCHANGED <<socketVars, duelVars, tournamentDb, participantDb, dbRatingVars>>

\* prisma.tournamentParticipant.aggregate: the active records of the tournament
CountActive(t) ==
    Cardinality({k \in DOMAIN participantDb : k[1] = t /\ participantDb[k] = "active"})

\* after await prisma.tournamentParticipant.aggregate: lines 1491-1496
JoinHallCount(task) ==
    /\ task \in hallTasks /\ task.kind = "joinHall" /\ task.pc = "count"
    /\ IF CountActive(task.t) >= task.max
       THEN /\ out' = <<Callback(task.s, FALSE, "Tournament is full.")>>
            /\ HallTaskEnd(task)
       ELSE /\ out' = << >>
            /\ HallTaskStep(task, [task EXCEPT !.pc = "create"])
    /\ UNCHANGED <<socketVars, duelVars, activeHalls, tournamentDb, participantDb,
                   dbRatingVars>>

\* after await prisma.tournamentParticipant.create: lines 1498-1527; the unique
\* key (tournamentId, userId) makes the create fail with P2002 when the row exists
JoinHallCreate(task, ok) ==
    /\ task \in hallTasks /\ task.kind = "joinHall" /\ task.pc = "create"
    /\ IF <<task.t, authUser[task.s]>> \in DOMAIN participantDb
       THEN /\ HallTaskStep(task, [task EXCEPT !.pc = "refind"])
            /\ out' = << >>
            /\ UNCHANGED <<activeHalls, participantDb>>
       ELSE IF ~ok
       THEN /\ out' = <<Callback(task.s, FALSE, "Error joining.")>>
            /\ HallTaskEnd(task)
            /\ UNCHANGED <<activeHalls, participantDb>>
       ELSE /\ participantDb' = MapSet(participantDb, <<task.t, authUser[task.s]>>, "active")
            /\ HallTaskEnd(task)
            /\ activeHalls' = [activeHalls EXCEPT ![task.t] =
                   RegisterParticipant(@, authUser[task.s], task.s)]
            /\ out' = RegisterEmits(task, activeHalls[task.t])
    /\ UNCHANGED <<socketVars, duelVars, tournamentDb, dbRatingVars>>

\* after the findUnique that follows a P2002: lines 1504-1520, then line 1540
JoinHallRefind(task) ==
    /\ task \in hallTasks /\ task.kind = "joinHall" /\ task.pc = "refind"
    /\ JoinHallFinish(task)
    /\ UNCHANGED <<socketVars, duelVars, tournamentDb, participantDb, dbRatingVars>>

(***************************************************************************)
(* socket.on("kickFromHall").                                              *)
(***************************************************************************)
KickFromHall(s, t, targetUserId) ==
    /\ connected[s] = "open"
    /\ LET task == [HallTask("kick", s, t, "findTournament") EXCEPT !.target = targetUserId]
       IN  /\ task \notin hallTasks
           /\ hallTasks' = hallTasks \cup {task}
    /\ out' = << >>
    /\ UNCHANGED <<socketVars, duelVars, activeHalls, tournamentDb, participantDb,
                   dbRatingVars>>

HallError(s, message) ==
    Emit("hallError", ToSocket(s), message)

\* authorization that lets the organizer kick themselves
KickRejectionWithoutSelfCheck(task) ==
    IF ~task.hall \/ task.t \notin DOMAIN tournamentDb \/ authUser[task.s] = NoUser
    THEN "Invalid request."
    ELSE IF tournamentDb[task.t].organizerId # authUser[task.s]
    THEN "Organizer only."
    ELSE ""

\* the checks of lines 1580-1591; "" when the request passes them
KickRejection(task) ==
    IF ~task.hall \/ task.t \notin DOMAIN tournamentDb \/ authUser[task.s] = NoUser
    THEN "Invalid request."
    ELSE IF tournamentDb[task.t].organizerId # authUser[task.s]
    THEN "Organizer only."
    ELSE IF task.target = authUser[task.s]
    THEN "Cannot kick self."
    ELSE ""

\* after await prisma.tournament.findUnique: lines 1580-1594 and 1616-1618
KickCheck(task) ==
    /\ task \in hallTasks /\ task.kind = "kick" /\ task.pc = "findTournament"
    /\ IF KickRejection(task) # ""
       THEN /\ out' = <<HallError(task.s, KickRejection(task))>>
            /\ HallTaskEnd(task)
            /\ UNCHANGED activeHalls
       ELSE IF task.target \notin DOMAIN activeHalls[task.t].participants
       THEN /\ out' = <<HallError(task.s, "Target user not in hall.")>>
            /\ HallTaskEnd(task)
            /\ UNCHANGED activeHalls
       ELSE /\ activeHalls' = [activeHalls EXCEPT ![task.t].participants =
                   MapDelete(@, task.target)]
            /\ HallTaskStep(task, [task EXCEPT !.pc = "deactivate",
                   !.kicked = activeHalls[task.t].participants[task.target]])
            /\ out' = << >>
    /\ UNCHANGED <<socketVars, duelVars, tournamentDb, participantDb, dbRatingVars>>

\* an update that writes nothing
DeactivateNothing(db, t, userId) ==
    db

\* updateMany({ where: { tournamentId, userId }, data: { isActive: false } })
Deactivate(db, t, userId) ==
    [k \in DOMAIN db |-> IF k = <<t, userId>> THEN "inactive" ELSE db[k]]

\* after await prisma.tournamentParticipant.updateMany: lines 1599-1615; when
\* the update throws, the handler ends there
KickDeactivate(task, ok) ==
    /\ task \in hallTasks /\ task.kind = "kick" /\ task.pc = "deactivate"
    /\ HallTaskEnd(task)
    /\ IF ok
       THEN /\ participantDb' = Deactivate(participantDb, task.t, task.target)
            /\ out' = (IF connected[task.kicked] = "open"
                       THEN <<Emit("kickedFromHall", ToSocket(task.kicked), task.t)>>
                       ELSE << >>)
                      \o <<Emit("userLeftHall", ToRoom(task.t), task.target),
                           Emit("hallActionSuccess", ToSocket(task.s), task.target)>>
       ELSE /\ out' = << >>
            /\ UNCHANGED participantDb
    /\ UNCHANGED <<socketVars, duelVars, activeHalls, tournamentDb, dbRatingVars>>

(***************************************************************************)
(* socket.on("startTournamentRound").                                      *)
(***************************************************************************)
StartTournamentRound(s, t) ==
    /\ connected[s] = "open"
    /\ HallTask("round", s, t, "findTournament") \notin hallTasks
    /\ hallTasks' = hallTasks \cup {HallTask("round", s, t, "findTournament")}
    /\ out' = << >>
    /\ UNCHANGED <<socketVars, duelVars, activeHalls, tournamentDb, participantDb,
                   dbRatingVars>>

\* the checks of lines 1631-1657; "" when the request passes them
RoundRejection(task) ==
    IF ~task.hall \/ task.t \notin DOMAIN tournamentDb \/ authUser[task.s] = NoUser
    THEN "Invalid request."
    ELSE IF tournamentDb[task.t].organizerId # authUser[task.s]
    THEN "Organizer only."
    ELSE IF tournamentDb[task.t].status \notin {"PENDING", "ACTIVE"}
    THEN "Tournament not in PENDING or ACTIVE state to start a new round."
    ELSE IF Cardinality(DOMAIN activeHalls[task.t].participants) < 2
            /\ tournamentDb[task.t].pairingSystem = "RANDOM"
    THEN "Need at least 2 participants."
    ELSE ""

\* after await prisma.tournament.findUnique: lines 1631-1659
RoundCheck(task) ==
    /\ task \in hallTasks /\ task.kind = "round" /\ task.pc = "findTournament"
    /\ IF RoundRejection(task) # ""
       THEN /\ out' = <<HallError(task.s, RoundRejection(task))>>
            /\ HallTaskEnd(task)
       ELSE /\ out' = << >>
            /\ HallTaskStep(task, [task EXCEPT !.pc = "update"])
    /\ UNCHANGED <<socketVars, duelVars, activeHalls, tournamentDb, participantDb,
                   dbRatingVars>>

\* the orders Array.prototype.sort with a random comparator can leave a list in
Orders(S) ==
    {f \in [1..Cardinality(S) -> S] : \A i, j \in DOMAIN f : i # j => f[i] # f[j]}

\* lines 1671-1676: pairs are popped off the end of the shuffled list
RECURSIVE DuelsToCreate(_)
DuelsToCreate(order) ==
    IF Len(order) < 2 THEN << >>
    ELSE <<[p1 |-> order[Len(order)], p2 |-> order[Len(order) - 1]]>>
         \o DuelsToCreate(SubSeq(order, 1, Len(order) - 2))

\* what is left of the list after the pairing
Unpaired(order) ==
    SubSeq(order, 1, Len(order) % 2)

\* lines 1678-1686
ByeEmits(order, participants) ==
    IF Len(Unpaired(order)) = 1 /\ connected[participants[order[1]]] = "open"
    THEN <<Emit("tournamentMessage", ToSocket(participants[order[1]]),
                "You have a bye this round.")>>
    ELSE << >>

\* lines 1701-1721, for one pair
PairEmits(pair, t, now, participants) ==
    (IF connected[participants[pair.p1]] = "open"
     THEN <<Emit("duelInvitation", ToSocket(participants[pair.p1]),
                 <<TourneyDuelId(t, pair.p1, pair.p2, now), pair.p2>>)>>
     ELSE << >>)
    \o (IF connected[participants[pair.p2]] = "open"
        THEN <<Emit("duelInvitation", ToSocket(participants[pair.p2]),
                    <<TourneyDuelId(t, pair.p1, pair.p2, now), pair.p1>>)>>
        ELSE << >>)
    \o <<Emit("newTournamentDuel", ToRoom(t),
              <<TourneyDuelId(t, pair.p1, pair.p2, now), pair.p1, pair.p2>>)>>

RECURSIVE RoundEmits(_, _, _, _)
RoundEmits(pairs, t, now, participants) ==
    IF pairs = << >> THEN << >>
    ELSE PairEmits(Head(pairs), t, now, participants)
         \o RoundEmits(Tail(pairs), t, now, participants)

\* line 1691: activeDuels.set(duelId, a new room), replacing what is registered
\* under duelId; reg is [duels, fetches, elos]
SetRoundDuel(reg, duelId, t) ==
    [duels |-> MapSet(reg.duels, duelId, NewRoom(duelId, t)),
     fetches |-> IF duelId \in DOMAIN reg.duels
                 THEN Detach(reg.fetches, duelId, reg.duels[duelId]) ELSE reg.fetches,
     elos |-> IF duelId \in DOMAIN reg.duels
              THEN Detach(reg.elos, duelId, reg.duels[duelId]) ELSE reg.elos]

RECURSIVE CreateRoundDuels(_, _, _, _)
CreateRoundDuels(pairs, t, now, reg) ==
    IF pairs = << >> THEN reg
    ELSE CreateRoundDuels(Tail(pairs), t, now,
             SetRoundDuel(reg, TourneyDuelId(t, Head(pairs).p1, Head(pairs).p2, now), t))

\* after await prisma.tournament.update: lines 1663-1725; when the update
\* throws, the handler ends there
RoundRun(task, ok, now) ==
    /\ task \in hallTasks /\ task.kind = "round" /\ task.pc = "update"
    /\ HallTaskEnd(task)
    /\ IF ~ok
       THEN /\ out' = << >>
            /\ UNCHANGED <<tournamentDb, activeDuels, fetchTasks, eloTasks>>
       ELSE \E order \in Orders(DOMAIN activeHalls[task.t].participants) :
               LET pairs == DuelsToCreate(order)
                   participants == activeHalls[task.t].participants
                   reg == CreateRoundDuels(pairs, task.t, now,
                              [duels |-> activeDuels, fetches |-> fetchTasks,
                               elos |-> eloTasks])
               IN  /\ Cardinality(DOMAIN reg.duels) <= MaxRooms
                   /\ tournamentDb' = [tournamentDb EXCEPT ![task.t].status = "ACTIVE"]
                   /\ activeDuels' = reg.duels
                   /\ fetchTasks' = reg.fetches
                   /\ eloTasks' = reg.elos
                   /\ out' = <<Emit("tournamentStatusUpdate", ToRoom(task.t), "ACTIVE")>>
                             \o ByeEmits(order, participants)
                             \o RoundEmits(pairs, task.t, now, participants)
                             \o <<Emit("hallActionSuccess", ToSocket(task.s), Len(pairs))>>
    /\ UNCHANGED <<socketVars, activeHalls, participantDb, dbRatingVars>>

(***************************************************************************)
(* The duel engine: every event of a connection that touches a duel room,  *)
(* on the duel ids a client can name.                                      *)
(***************************************************************************)
SubmissionTimes == 1..MaxSubmissionTime

\* joining and leaving duels
JoinLeaveEvents(duelIds, clientUserIds, codes, results) ==
    \/ \E s \in Sockets, d \in duelIds, u \in clientUserIds,
          c \in codes, l \in InitialLanguages : JoinDuel(s, d, u, c, l)
    \/ \E t \in fetchTasks, r \in results : FetchDone(t, r)
    \/ \E s \in Sockets : Disconnect(s)

\* solving and the rating update that follows
SolveEvents(duelIds, solvers, oks) ==
    \/ \E s \in Sockets, d \in duelIds, u \in solvers, role \in Roles,
          t \in SubmissionTimes : ProblemSolved(s, d, u, role, t)
    \/ \E t \in eloTasks, ok \in oks : EloFind1(t, ok)
    \/ \E t \in eloTasks, ok \in oks : EloFind2(t, ok)
    \/ \E t \in eloTasks, ok \in oks : EloUpdate1(t, ok)
    \/ \E t \in eloTasks, ok \in oks : EloUpdate2(t, ok)
    \/ \E t \in eloTasks, ok \in oks : EloCreate(t, ok)

\* one duel id; anonymous connections name themselves u2, g1 or nobody
Next ==
    \/ JoinLeaveEvents({<<"d1">>}, {"u2", "g1", NoUser}, {"// Start coding..."},
                       OneProblem \cup {"none", "error"})
    \/ SolveEvents({<<"d1">>}, Users, BOOLEAN)

Spec ==
    Init /\ [][Next]_vars

\* as Next, with every lookup and write of the rating update succeeding; a
\* pending storage call returns
NextRated ==
    \/ JoinLeaveEvents({<<"d1">>}, {"u2", "g1", NoUser}, {"// Start coding..."},
                       OneProblem \cup {"none", "error"})
    \/ SolveEvents({<<"d1">>}, Users, {TRUE})

RatingStep ==
    \E t \in eloTasks :
        \/ EloFind1(t, TRUE) \/ EloFind2(t, TRUE) \/ EloUpdate1(t, TRUE)
        \/ EloUpdate2(t, TRUE) \/ EloCreate(t, TRUE)

SpecRated ==
    Init /\ [][NextRated]_vars /\ WF_vars(RatingStep)

\* two duel ids and three logged-in users
NextTwo ==
    JoinLeaveEvents(FreeDuelIds, {NoUser}, {"// Start coding..."}, OneProblem)

(***************************************************************************)
(* calculateElo on its own: a call with two ratings near the default and a *)
(* score of 0, 0.5 or 1 (doubled), and its return.                         *)
(***************************************************************************)
EloRatings == (DefaultRating - MaxRatingGap)..(DefaultRating + MaxRatingGap)
EloScoresx2 == {0, 1, 2}

InitElo ==
    /\ connected = [s \in Sockets |-> "unused"]
    /\ authUser = [s \in Sockets |-> NoUser]
    /\ currentDuelId = [s \in Sockets |-> NoDuel]
    /\ currentTournamentHallId = [s \in Sockets |-> NoTournament]
    /\ activeDuels = << >>
    /\ activeHalls = << >>
    /\ tournamentDb = << >>
    /\ participantDb = << >>
    /\ userRating = [u \in RegUsers |-> DefaultRating]
    /\ duelMatches = << >>
    /\ fetchTasks = {}
    /\ \E a, b \in EloRatings, sc \in EloScoresx2 : eloTasks = {EloCall(a, b, sc)}
    /\ hallTasks = {}
    /\ out = << >>

NextElo ==
    \E call \in eloTasks : CalculateElo(call)

SpecElo ==
    InitElo /\ [][NextElo]_vars

(***************************************************************************)
(* Editing: the duel d1 with joins, rejoins and disconnects, and code and  *)
(* language updates that name d1 or the unknown d2, any role and either    *)
(* logged-in user.                                                         *)
(***************************************************************************)
EditCodes == {"x"}
EditLanguages == {"py"}
EditRoles == Roles \cup {"spectator"}

\* joins of d1 with either initial code and every result of the Problem
\* Source, leaves and solves
NextRejoin ==
    \/ JoinLeaveEvents({<<"d1">>}, {"u2", NoUser}, InitialCodes, FetchResults)
    \/ SolveEvents({<<"d1">>}, {"u1", "u2"}, {TRUE})

SpecRejoin ==
    Init /\ [][NextRejoin]_vars

NextEdit ==
    \/ JoinLeaveEvents({<<"d1">>}, {"u2", NoUser}, {"// Start coding..."}, OneProblem)
    \/ \E s \in Sockets, d \in FreeDuelIds, u \in {"u1", "u2"}, role \in EditRoles,
          c \in EditCodes : CodeUpdate(s, d, u, role, c)
    \/ \E s \in Sockets, d \in FreeDuelIds, u \in {"u1", "u2"}, role \in EditRoles,
          l \in EditLanguages : LanguageUpdate(s, d, u, role, l)

SpecEdit ==
    Init /\ [][NextEdit]_vars

(***************************************************************************)
(* Kicking: one tournament of organizer u1, who is connected once, and     *)
(* user u2, who is connected twice.  Every storage call succeeds.          *)
(***************************************************************************)
Idle(limit) ==
    Cardinality(hallTasks) < limit

KickAuth ==
    [s \in {"s1", "s2", "s3"} |-> IF s = "s1" THEN "u1" ELSE "u2"]

InitKick ==
    InitWith(KickAuth)

NextKick ==
    \/ CreateTournament("t1", "u1", 0)
    \/ \E s \in Sockets : Idle(MaxKickTasks) /\ JoinHall(s, "t1")
    \/ \E task \in hallTasks : JoinHallFindTournament(task)
    \/ \E task \in hallTasks : JoinHallFindParticipant(task)
    \/ \E task \in hallTasks : JoinHallCreate(task, TRUE)
    \/ \E task \in hallTasks : JoinHallRefind(task)
    \/ \E s \in Sockets, u \in {"u1", "u2"} :
          Idle(MaxKickTasks) /\ KickFromHall(s, "t1", u)
    \/ \E task \in hallTasks : KickCheck(task)
    \/ \E task \in hallTasks : KickDeactivate(task, TRUE)
    \/ \E s \in Sockets : Disconnect(s)

SpecKick ==
    InitKick /\ [][NextKick]_vars

(***************************************************************************)
(* Rounds: one tournament of organizer u1 without a participant limit,     *)
(* three logged-in users who join its hall, and the rounds u1 starts.      *)
(* Every storage call succeeds.                                            *)
(***************************************************************************)
HallAuth ==
    [s \in {"s1", "s2", "s3"} |->
        IF s = "s1" THEN "u1" ELSE IF s = "s2" THEN "u2" ELSE "u3"]

InitHall ==
    InitWith(HallAuth)

NextRound ==
    \/ CreateTournament("t1", "u1", 0)
    \/ \E s \in Sockets : Idle(MaxRoundTasks) /\ JoinHall(s, "t1")
    \/ \E task \in hallTasks : JoinHallFindTournament(task)
    \/ \E task \in hallTasks : JoinHallFindParticipant(task)
    \/ \E task \in hallTasks : JoinHallCreate(task, TRUE)
    \/ \E s \in Sockets : Idle(MaxRoundTasks) /\ StartTournamentRound(s, "t1")
    \/ \E task \in hallTasks : RoundCheck(task)
    \/ \E task \in hallTasks, now \in NowValues : RoundRun(task, TRUE, now)
    \/ \E s \in Sockets : Disconnect(s)

SpecRound ==
    InitHall /\ [][NextRound]_vars

(***************************************************************************)
(* Capacity: one pending tournament with maxParticipants set, three        *)
(* logged-in users whose joinHall handlers interleave at their awaits.     *)
(* Every storage call succeeds.                                            *)
(***************************************************************************)
NextCapacity ==
    \/ CreateTournament("t1", "u1", MaxCapacity)
    \/ \E s \in Sockets : Idle(MaxJoinTasks) /\ JoinHall(s, "t1")
    \/ \E task \in hallTasks : JoinHallFindTournament(task)
    \/ \E task \in hallTasks : JoinHallFindParticipant(task)
    \/ \E task \in hallTasks : JoinHallCount(task)
    \/ \E task \in hallTasks : JoinHallCreate(task, TRUE)
    \/ \E s \in Sockets : Disconnect(s)

SpecCapacity ==
    InitHall /\ [][NextCapacity]_vars

(***************************************************************************)
(* Two halls: tournament t1 without a limit and tournament t2 with         *)
(* maxParticipants set, both of organizer u1; three logged-in users join   *)
(* either hall, one handler at a time.  Every storage call succeeds.       *)
(***************************************************************************)
NextTwoHalls ==
    \/ CreateTournament("t1", "u1", 0)
    \/ CreateTournament("t2", "u1", MaxCapacity)
    \/ \E s \in Sockets, t \in Tournaments : Idle(MaxRoundTasks) /\ JoinHall(s, t)
    \/ \E task \in hallTasks : JoinHallFindTournament(task)
    \/ \E task \in hallTasks : JoinHallFindParticipant(task)
    \/ \E task \in hallTasks : JoinHallCount(task)
    \/ \E task \in hallTasks : JoinHallCreate(task, TRUE)
    \/ \E s \in Sockets : Disconnect(s)

SpecTwoHalls ==
    InitHall /\ [][NextTwoHalls]_vars

(***************************************************************************)
(* Rounds and their duels: as above with two logged-in users, who also     *)
(* join the duels of the rounds.                                           *)
(***************************************************************************)
PairAuth ==
    [s \in {"s1", "s2"} |-> IF s = "s1" THEN "u1" ELSE "u2"]

InitPair ==
    InitWith(PairAuth)

NextRoundDuels ==
    \/ NextRound
    \/ \E s \in Sockets, d \in DOMAIN activeDuels :
          /\ JoinDuel(s, d, NoUser, "// Start coding...", "cpp")
          /\ Cardinality(fetchTasks') <= MaxFetchTasks
    \/ \E t \in fetchTasks : FetchDone(t, "p1")

SpecRoundDuels ==
    InitPair /\ [][NextRoundDuels]_vars

\* u1 and u2 meet in the hall of t1 and u1 starts rounds; u3, on s3, stays
\* outside the hall; all three join the duels of the rounds
NextRoundOutsider ==
    \/ CreateTournament("t1", "u1", 0)
    \/ \E s \in {"s1", "s2"} : Idle(MaxRoundTasks) /\ JoinHall(s, "t1")
    \/ \E task \in hallTasks : JoinHallFindTournament(task)
    \/ \E task \in hallTasks : JoinHallFindParticipant(task)
    \/ \E task \in hallTasks : JoinHallCreate(task, TRUE)
    \/ Idle(MaxRoundTasks) /\ StartTournamentRound("s1", "t1")
    \/ \E task \in hallTasks : RoundCheck(task)
    \/ \E task \in hallTasks, now \in NowValues : RoundRun(task, TRUE, now)
    \/ \E s \in Sockets, d \in DOMAIN activeDuels :
          /\ JoinDuel(s, d, NoUser, "// Start coding...", "cpp")
          /\ Cardinality(fetchTasks') <= MaxFetchTasks
    \/ \E t \in fetchTasks : FetchDone(t, "p1")

SpecRoundOutsider ==
    InitHall /\ [][NextRoundOutsider]_vars

SpecTwo ==
    InitHall /\ [][NextTwo]_vars

(***************************************************************************)
(* Two duels or two halls side by side: u1 on s1, u2 on s2 and on s3.  The *)
(* clients of a run either duel (joins, edits by u1 in slot competitor1,   *)
(* solves by u2 and ratings on d1 and d2) or meet in halls (joinHall from  *)
(* s1 and s2 and kickFromHall of u2 by s1, on t1 and t2, one hall handler  *)
(* at a time): the first joinDuel comes before any tournament exists, or   *)
(* never.                                                                  *)
(***************************************************************************)
NoHallYet ==
    DOMAIN tournamentDb = {} /\ hallTasks = {}

NoDuelYet ==
    DOMAIN activeDuels = {}

\* the duels a connection joins: s2 joins d1, s3 joins d2, s1 joins either
FrameDuels(s) ==
    IF s = "s1" THEN FreeDuelIds ELSE IF s = "s2" THEN {<<"d1">>} ELSE {<<"d2">>}

NextFrame ==
    \/ \E s \in Sockets : \E d \in FrameDuels(s) :
          NoHallYet /\ JoinDuel(s, d, NoUser, "// Start coding...", "cpp")
    \/ \E t \in fetchTasks, r \in OneProblem : FetchDone(t, r)
    \/ \E d \in FreeDuelIds, c \in EditCodes :
          CodeUpdate("s1", d, "u1", "competitor1", c)
    \/ \E d \in FreeDuelIds, l \in EditLanguages :
          LanguageUpdate("s1", d, "u1", "competitor1", l)
    \/ \E s \in {"s2", "s3"}, d \in FreeDuelIds, role \in Roles, t \in SubmissionTimes :
          ProblemSolved(s, d, "u2", role, t)
    \/ \E t \in eloTasks : EloFind1(t, TRUE)
    \/ \E t \in eloTasks : EloFind2(t, TRUE)
    \/ \E t \in eloTasks : EloUpdate1(t, TRUE)
    \/ \E t \in eloTasks : EloUpdate2(t, TRUE)
    \/ \E t \in eloTasks : EloCreate(t, TRUE)
    \/ \E t \in Tournaments : NoDuelYet /\ CreateTournament(t, "u1", 0)
    \/ \E s \in {"s1", "s2"}, t \in Tournaments :
          NoDuelYet /\ Idle(MaxRoundTasks) /\ JoinHall(s, t)
    \/ \E task \in hallTasks : JoinHallFindTournament(task)
    \/ \E task \in hallTasks : JoinHallFindParticipant(task)
    \/ \E task \in hallTasks : JoinHallCreate(task, TRUE)
    \/ \E t \in Tournaments :
          NoDuelYet /\ Idle(MaxRoundTasks) /\ KickFromHall("s1", t, "u2")
    \/ \E task \in hallTasks : KickCheck(task)
    \/ \E task \in hallTasks : KickDeactivate(task, TRUE)

SpecFrame ==
    InitKick /\ [][NextFrame]_vars

(***************************************************************************)
(* Properties of the duel rooms.                                           *)
(***************************************************************************)
Occupied(room) ==
    {role \in Roles : room[role] # NoComp}

\* C1: in every reachable state of every registered duel room, each competitor
\* slot holds one competitor record or none, an occupied slot holds a real user
\* id, and no user id occupies both slots.
C1_SlotsHoldDistinctUsers ==
    \A d \in DOMAIN activeDuels :
        /\ \A role \in Occupied(activeDuels[d]) :
              /\ activeDuels[d][role].userId \in Users
              /\ activeDuels[d][role].socketId \in Sockets
        /\ Occupied(activeDuels[d]) = Roles
              => activeDuels[d].competitor1.userId # activeDuels[d].competitor2.userId

\* both slots filled, and user u2 has rejoined from another connection
C1_Witness ==
    /\ <<"d1">> \in DOMAIN activeDuels
    /\ activeDuels[<<"d1">>].competitor1.userId = "u1"
    /\ activeDuels[<<"d1">>].competitor2.userId = "u2"
    /\ activeDuels[<<"d1">>].competitor2.socketId = "s3"
    /\ connected["s2"] = "open"

\* the room registered under d before and after a step (a new room before its creation)
RoomBefore(d) ==
    IF d \in DOMAIN activeDuels THEN activeDuels[d] ELSE NewRoom(d, NoTournament)

\* the step is a joinDuel on d that got past identification: only joinDuel emits
\* assignedRole, first and to the caller, whose closure variable it has set to d
IsJoinDuelStep(d) ==
    /\ out' # << >>
    /\ out'[1].ev = "assignedRole"
    /\ currentDuelId'[out'[1].to[2]] = d

FetchStarted ==
    \E t \in fetchTasks' : t \notin fetchTasks

\* C2: a room goes from waiting to active at most once, only in a joinDuel step
\* that fills the second competitor slot; a problem request starts only in such
\* a step, so a joinDuel on an active room starts none; no room is requested a
\* problem twice.
C2_ActivatedOnceWhenBothSlotsFill ==
    [][\A d \in DOMAIN activeDuels' :
          LET old == RoomBefore(d)
              new == activeDuels'[d]
              activatedNow == old.status = "waiting" /\ new.status = "active"
          IN  /\ new.status = "active" => old.status \in {"waiting", "active"}
              /\ activatedNow => /\ IsJoinDuelStep(d)
                                 /\ Occupied(old) # Roles
                                 /\ Occupied(new) = Roles
                                 /\ old.nActivated = 0
              /\ new.nActivated <= 1
              /\ new.nFetch <= 1
              /\ (IsJoinDuelStep(d) /\ FetchStarted) => activatedNow
              /\ (IsJoinDuelStep(d) /\ old.status = "active")
                    => (fetchTasks' = fetchTasks /\ new.nFetch = old.nFetch)
      ]_vars

\* the last step was a joinDuel on the active room d1 and activated nothing
C2_Witness ==
    /\ <<"d1">> \in DOMAIN activeDuels
    /\ activeDuels[<<"d1">>].status = "active"
    /\ activeDuels[<<"d1">>].nActivated = 1
    /\ Len(out) >= 1
    /\ out[1].ev = "assignedRole"
    /\ \A i \in 1..Len(out) : out[i].ev # "duelStatusUpdate" \/ out[i].to # ToRoom(<<"d1">>)

\* the step is an accepted problemSolved: only that emits competitorSolved, first
\* and to the room of its duel id
IsAcceptedSolveStep ==
    out' # << >> /\ out'[1].ev = "competitorSolved"

\* C3: a problemSolved that is accepted for a room without a winner makes the
\* user id it names the winner and the room finished; an active room has no
\* winner, so the first accepted one does that; once a room is finished no step,
\* so no later problemSolved of either competitor, changes its winner or status.
C3_FirstSolverWins ==
    [][/\ IsAcceptedSolveStep =>
             LET d == out'[1].to[2]
                 u == out'[1].arg[1]
             IN  /\ activeDuels[d].status = "active"
                 /\ activeDuels[d].winner = NoWinner
                 /\ activeDuels'[d].winner = u
                 /\ activeDuels'[d].status = "finished"
       /\ \A d \in DOMAIN activeDuels \cap DOMAIN activeDuels' :
             /\ activeDuels[d].status = "active" => activeDuels[d].winner = NoWinner
             /\ activeDuels[d].status = "finished"
                   => /\ activeDuels'[d].winner = activeDuels[d].winner
                      /\ activeDuels'[d].status = "finished"
      ]_vars

\* u1 has solved and won d1, u2 is still in its slot
C3_Witness ==
    /\ <<"d1">> \in DOMAIN activeDuels
    /\ activeDuels[<<"d1">>].status = "finished"
    /\ activeDuels[<<"d1">>].winner = "u1"
    /\ activeDuels[<<"d1">>].competitor1.solvedProblem
    /\ activeDuels[<<"d1">>].competitor2.userId = "u2"
    /\ out = << >>

\* C4: whenever a connection bound to a competitor slot of an active duel
\* disconnects, whatever it joined before, that duel ends in the same step: the
\* slot is cleared, the status is finished and the winner is the user id in the
\* other slot.
C4_CompetitorDisconnectEndsActiveDuel ==
    [][\A s \in Sockets :
          Disconnect(s) =>
              \A d \in DOMAIN activeDuels, role \in Roles :
                  (activeDuels[d].status = "active" /\ activeDuels[d][role].socketId = s)
                      => /\ d \in DOMAIN activeDuels'
                         /\ activeDuels'[d][role] = NoComp
                         /\ activeDuels'[d].status = "finished"
                         /\ activeDuels'[d].winner = activeDuels[d][OtherRole(role)].userId
      ]_vars

\* s holds no competitor slot of any room
OnlySpectates(s) ==
    \A d \in DOMAIN activeDuels : RoleOfSocket(activeDuels[d], s) = "none"

\* C5: when a connection that holds no competitor slot disconnects, every room
\* that has it as a spectator and is still registered afterwards has lost it from
\* its spectator set and kept its status, winner, competitor slots and problem.
C5_SpectatorDisconnectOnlyLeavesSpectators ==
    [][\A s \in Sockets :
          (Disconnect(s) /\ OnlySpectates(s)) =>
              \A d \in DOMAIN activeDuels \cap DOMAIN activeDuels' :
                  s \in activeDuels[d].spectators
                      => /\ s \notin activeDuels'[d].spectators
                         /\ activeDuels'[d].status = activeDuels[d].status
                         /\ activeDuels'[d].winner = activeDuels[d].winner
                         /\ activeDuels'[d].competitor1 = activeDuels[d].competitor1
                         /\ activeDuels'[d].competitor2 = activeDuels[d].competitor2
                         /\ activeDuels'[d].problem = activeDuels[d].problem
      ]_vars

\* C6 as stated: while a room stays registered, a user id that was assigned a
\* role in it is assigned the same role by every later joinDuel on it.
C6_SameUserSameRole ==
    [][\A d \in DOMAIN activeDuels \cap DOMAIN activeDuels', u \in Users :
          activeDuels[d].assigned[u] # "none"
              => activeDuels'[d].assigned[u] = activeDuels[d].assigned[u]
      ]_vars

\* C6: while a room stays registered and none of its competitor slots is vacated
\* by a disconnect, a user id that was assigned a role in it is assigned the same
\* role by every later joinDuel on it, whichever connection calls.
C6_SameUserSameRoleUntilVacated ==
    [][\A d \in DOMAIN activeDuels \cap DOMAIN activeDuels', u \in Users :
          activeDuels[d].assignedSince[u] # "none"
              => activeDuels'[d].assignedSince[u]
                    \in {activeDuels[d].assignedSince[u], "none"}
      ]_vars

\* u2 has just joined d1 again, from another connection, and is competitor2 as before
C6_Witness ==
    /\ <<"d1">> \in DOMAIN activeDuels
    /\ activeDuels[<<"d1">>].competitor2.userId = "u2"
    /\ activeDuels[<<"d1">>].competitor2.socketId = "s3"
    /\ currentDuelId["s2"] = <<"d1">>
    /\ activeDuels[<<"d1">>].assignedSince["u2"] = "competitor2"
    /\ out # << >>
    /\ out[1] = Emit("assignedRole", ToSocket("s3"), <<"competitor2", "u2">>)

\* u1 in competitor1 and u2 in competitor2 of the active room d1, its problem attached
ScenarioReady ==
    /\ <<"d1">> \in DOMAIN activeDuels
    /\ activeDuels[<<"d1">>].status = "active"
    /\ activeDuels[<<"d1">>].competitor1.userId = "u1"
    /\ activeDuels[<<"d1">>].competitor2.userId = "u2"
    /\ activeDuels[<<"d1">>].problem # NoProblem

\* the rating update of a duel of u1 and u2 that u1 won is pending
RatingPending ==
    \E t \in eloTasks : t.c1 = "u1" /\ t.c2 = "u2" /\ TaskRoom(t).winner = "u1"

RatingsWritten ==
    /\ userRating["u1"] = 1216
    /\ userRating["u2"] = 1184

RatingsBroadcast ==
    /\ out # << >>
    /\ out[1].ev = "ratingsUpdated"
    /\ out[1].to = ToRoom(<<"d1">>)

\* C8: when u1 submits solved in the active duel d1 of u1 and u2 whose problem
\* has arrived, d1 is finished with winner u1 and the rating update starts; the
\* update writes both ratings (1216 and 1184, from 1200 each) and then
\* broadcasts ratingsUpdated to d1; ratingsUpdated is broadcast once per room
\* and once in the run, whatever is submitted afterwards.
C8_SolveRatesOnce ==
    /\ [][/\ \A s \in Sockets, t \in SubmissionTimes :
                (ScenarioReady /\ ProblemSolved(s, <<"d1">>, "u1", "competitor1", t))
                    => /\ activeDuels'[<<"d1">>].status = "finished"
                       /\ activeDuels'[<<"d1">>].winner = "u1"
                       /\ RatingPending'
          /\ RatingsBroadcast'
                => /\ \E t \in eloTasks : t.pc = "create" /\ eloTasks' = eloTasks \ {t}
                   /\ Len(duelMatches) = 0
                   /\ Len(duelMatches') = 1
                   /\ RatingPending => RatingsWritten'
          /\ \A d \in DOMAIN activeDuels' : activeDuels'[d].nRatings <= 1
         ]_vars
    /\ (RatingPending ~> (RatingsWritten /\ RatingsBroadcast /\ Len(duelMatches) = 1))

\* the ratings of u1 and u2 are written and broadcast for the finished duel d1
C8_Witness ==
    /\ <<"d1">> \in DOMAIN activeDuels
    /\ activeDuels[<<"d1">>].status = "finished"
    /\ activeDuels[<<"d1">>].winner = "u1"
    /\ activeDuels[<<"d1">>].competitor1.solvedProblem
    /\ activeDuels[<<"d1">>].nRatings = 1
    /\ RatingsWritten
    /\ RatingsBroadcast

StatusRank(status) ==
    CASE status = "waiting" -> 0
      [] status = "active" -> 1
      [] status = "finished" -> 2

\* C7: the status of the room registered under a duel id never moves backwards:
\* under no event does it go from finished to active or waiting, or from active
\* to waiting.
C7_StatusNeverMovesBack ==
    [][\A d \in DOMAIN activeDuels \cap DOMAIN activeDuels' :
          StatusRank(activeDuels'[d].status) >= StatusRank(activeDuels[d].status)
      ]_vars

\* the room of d has a winner and its slot role holds user u
LateSolve(d, role, u) ==
    /\ d \in DOMAIN activeDuels
    /\ activeDuels[d].winner # NoWinner
    /\ activeDuels[d][role] # NoComp
    /\ activeDuels[d][role].userId = u

\* C18: a problemSolved for a room that already has a winner, naming a
\* competitor of the room, leaves the winner as it is, marks that competitor
\* solved and sends competitorSolved to the room.
C18_LateSolveStillMarkedAndBroadcast ==
    [][\A s \in Sockets, u \in Users, role \in Roles, t \in SubmissionTimes :
          (LateSolve(<<"d1">>, role, u) /\ ProblemSolved(s, <<"d1">>, u, role, t))
              => /\ activeDuels'[<<"d1">>].winner = activeDuels[<<"d1">>].winner
                 /\ activeDuels'[<<"d1">>][role].solvedProblem
                 /\ out' # << >>
                 /\ out'[1] = Emit("competitorSolved", ToRoom(<<"d1">>), <<u, role, t>>)
      ]_vars

\* the retrieval for the room of d failed: the room is active, a problem was
\* requested for it, none is attached and no request is pending
RetrievalFailed(d) ==
    /\ d \in DOMAIN activeDuels
    /\ activeDuels[d].status = "active"
    /\ activeDuels[d].nFetch >= 1
    /\ activeDuels[d].problem = NoProblem
    /\ \A t \in fetchTasks : ~(t.duelId = d /\ t.room = AttachedRoom)

\* C19: a joinDuel of a competitor of a room that a failed retrieval left active
\* without a problem starts a new problem request.
C19_RejoinRetriesRetrieval ==
    [][(/\ RetrievalFailed(<<"d1">>)
        /\ IsJoinDuelStep(<<"d1">>)
        /\ out'[1].arg[1] \in Roles
        /\ ExistingRole(activeDuels[<<"d1">>], out'[1].arg[2]) # "none")
          => FetchStarted
      ]_vars

\* C20: a competitor slot that a disconnect vacated while the duel was active
\* is afterwards empty or held by the user who held it then, never by another
\* user.
C20_ForfeitedSlotNotReassigned ==
    \A d \in DOMAIN activeDuels, role \in Roles :
        activeDuels[d].forfeitedBy[role] # NoUser
            => \/ activeDuels[d][role] = NoComp
               \/ activeDuels[d][role].userId = activeDuels[d].forfeitedBy[role]

\* C14: a room without competitors and spectators is not in the registry, and
\* once every connection has disconnected, so all that joined a room have, no
\* room is left in the registry.
C14_EmptyRoomsAreRemoved ==
    /\ \A d \in DOMAIN activeDuels : ~RoomIsEmpty(activeDuels[d])
    /\ (\A s \in Sockets : connected[s] # "open") => DOMAIN activeDuels = {}

\* C15: when the problem retrieval that followed an activation fails or yields
\* no problem, one error event is sent to the room and no room changes: the
\* activated room, if still registered, keeps its status (active, or finished if
\* it ended meanwhile) and has no problem; and a room that went active is never
\* in status waiting again.
C15_FailedRetrievalKeepsRoomActive ==
    [][/\ \A task \in fetchTasks, r \in FetchResults \ Problems :
             FetchDone(task, r) =>
                 /\ Len(out') = 1
                 /\ out'[1].ev = "duelError"
                 /\ out'[1].to = ToRoom(task.duelId)
                 /\ activeDuels' = activeDuels
                 /\ task.room = AttachedRoom =>
                        /\ activeDuels'[task.duelId].status \in {"active", "finished"}
                        /\ activeDuels'[task.duelId].problem = NoProblem
       /\ \A d \in DOMAIN activeDuels' :
             activeDuels'[d].nActivated >= 1 => activeDuels'[d].status # "waiting"
      ]_vars

\* the retrieval for d1 has just failed: the error went to the room, which is
\* active, has both competitors and no problem
C15_Witness ==
    /\ out = <<Emit("duelError", ToRoom(<<"d1">>), "error")>>
    /\ <<"d1">> \in DOMAIN activeDuels
    /\ activeDuels[<<"d1">>].status = "active"
    /\ activeDuels[<<"d1">>].problem = NoProblem
    /\ BothSlots(activeDuels[<<"d1">>])
    /\ fetchTasks = {}

\* the stored competitor of the role has the connection's id and the user id
StoredCompetitorIs(d, role, s, u) ==
    /\ d \in DOMAIN activeDuels
    /\ role \in Roles
    /\ activeDuels[d][role] # NoComp
    /\ activeDuels[d][role].socketId = s
    /\ activeDuels[d][role].userId = u

\* C11: a codeUpdate or languageUpdate stores the code or language in the named
\* slot, changes nothing else of the room and broadcasts it to the room, when
\* the stored competitor of the named role has the sending connection's id and
\* the user id given; in every other case no room changes and nothing is sent.
C11_UpdatesOnlyByBoundCompetitor ==
    [][\A s \in Sockets, d \in FreeDuelIds, u \in {"u1", "u2"}, role \in EditRoles :
          /\ \A c \in EditCodes :
                CodeUpdate(s, d, u, role, c) =>
                    IF StoredCompetitorIs(d, role, s, u)
                    THEN /\ activeDuels' = [activeDuels EXCEPT ![d][role].code = c]
                         /\ out' = <<Emit("competitorCodeUpdated", ToRoom(d),
                                          <<u, role, c>>)>>
                    ELSE activeDuels' = activeDuels /\ out' = << >>
          /\ \A l \in EditLanguages :
                LanguageUpdate(s, d, u, role, l) =>
                    IF StoredCompetitorIs(d, role, s, u)
                    THEN /\ activeDuels' = [activeDuels EXCEPT ![d][role].language = l]
                         /\ out' = <<Emit("competitorLanguageUpdated", ToRoom(d),
                                          <<u, role, l>>)>>
                    ELSE activeDuels' = activeDuels /\ out' = << >>
      ]_vars

\* u2's slot was taken over by a rejoin from s3 while s2 stays connected, and
\* an update from s3 has just been stored and broadcast
C11_Witness ==
    /\ <<"d1">> \in DOMAIN activeDuels
    /\ activeDuels[<<"d1">>].competitor2.userId = "u2"
    /\ activeDuels[<<"d1">>].competitor2.socketId = "s3"
    /\ activeDuels[<<"d1">>].competitor2.code = "x"
    /\ connected["s2"] = "open"
    /\ out = <<Emit("competitorCodeUpdated", ToRoom(<<"d1">>),
                    <<"u2", "competitor2", "x">>)>>

\* the step emits ev
Emits(ev) ==
    \E i \in 1..Len(out') : out'[i].ev = ev

\* a persistence call of the rating update of the task fails in this step
RatingCallFails(task) ==
    \/ EloFind1(task, FALSE) \/ EloFind2(task, FALSE) \/ EloUpdate1(task, FALSE)
    \/ EloUpdate2(task, FALSE) \/ EloCreate(task, FALSE)

\* C25: the step that ends a duel by a solve and emits duelEnded writes no
\* rating and no match record; a rating is written only for a duel that is
\* finished, its first rating before its second; ratingsUpdated is emitted only
\* in the step in which the match record is written, by a handler both of whose
\* rating writes have succeeded; and a persistence call that fails ends the
\* handler without ratingsUpdated.
C25_EndedThenRatedThenAnnounced ==
    [][/\ Emits("duelEnded") => (userRating' = userRating /\ duelMatches' = duelMatches)
       /\ userRating' # userRating =>
             \E task \in eloTasks :
                 /\ TaskRoom(task).status = "finished"
                 /\ \/ task.pc = "update1" /\ EloUpdate1(task, TRUE)
                    \/ task.pc = "update2" /\ EloUpdate2(task, TRUE)
       /\ \A task \in eloTasks' :
             (~\E same \in eloTasks : same.n = task.n /\ same.pc = task.pc) =>
                 /\ task.pc = "update2" =>
                       \E before \in eloTasks : before.n = task.n /\ EloUpdate1(before, TRUE)
                 /\ task.pc = "create" =>
                       \E before \in eloTasks : before.n = task.n /\ EloUpdate2(before, TRUE)
       /\ Emits("ratingsUpdated") =>
             \E task \in eloTasks :
                 /\ task.pc = "create" /\ EloCreate(task, TRUE)
                 /\ duelMatches' = Append(duelMatches, MatchRecord(task, TaskRoom(task)))
       /\ \A task \in eloTasks :
             RatingCallFails(task) =>
                 /\ ~Emits("ratingsUpdated")
                 /\ eloTasks' = eloTasks \ {task}
                 /\ userRating' = userRating /\ duelMatches' = duelMatches
      ]_vars

\* u1 won d1 by solving, the first rating write succeeded and the second one
\* failed: the handler is gone, nothing was announced, no match record exists
C25_Witness ==
    /\ <<"d1">> \in DOMAIN activeDuels
    /\ activeDuels[<<"d1">>].status = "finished"
    /\ activeDuels[<<"d1">>].winner = "u1"
    /\ activeDuels[<<"d1">>].competitor1.solvedProblem
    /\ activeDuels[<<"d1">>].nRatings = 0
    /\ userRating["u1"] = 1216 /\ userRating["u2"] = DefaultRating
    /\ eloTasks = {} /\ duelMatches = << >> /\ out = << >>

\* C26: a submitSolved that finishes a duel whose two competitor slots are
\* populated starts the rating update of the two competitors, with outcome 1
\* for the winner and 0 for the loser, whether or not the problem of the room
\* has been attached.
C26_SolveWithBothSlotsStartsRating ==
    [][(IsAcceptedSolveStep /\ Emits("duelEnded")) =>
          LET d    == out'[1].to[2]
              room == activeDuels'[d]
          IN  BothSlots(room) =>
                 \E task \in eloTasks' \ eloTasks :
                     /\ task.duelId = d
                     /\ task.c1 = room.competitor1.userId
                     /\ task.c2 = room.competitor2.userId
                     /\ Score1x2(room, task.c1, task.c2) = (IF room.winner = task.c1 THEN 2 ELSE 0)
      ]_vars

\* the requests to the Problem Source that will write to the room registered as d
PendingFetches(tasks, d) ==
    {t \in tasks : t.duelId = d /\ t.room = AttachedRoom}

\* C27: whatever joins, leaves and results of the Problem Source interleave, a
\* room is requested a problem at most once: at most one request for it is
\* pending, a request is pending only while the room has no problem, and the
\* problem of a room changes only from none to the result of that request; an
\* attached problem is never replaced.
C27_OneRequestAndOneProblemPerRoom ==
    [][\A d \in DOMAIN activeDuels' :
          LET old == RoomBefore(d)
              new == activeDuels'[d]
              pending == PendingFetches(fetchTasks', d)
          IN  /\ new.nFetch <= 1
              /\ Cardinality(pending) <= 1
              /\ pending # {} => (new.problem = NoProblem /\ new.nFetch = 1)
              /\ Cardinality(pending) > Cardinality(PendingFetches(fetchTasks, d))
                    => (old.nFetch = 0 /\ old.status = "waiting")
              /\ old.problem # NoProblem => new.problem = old.problem
              /\ new.problem # old.problem
                    => \E task \in PendingFetches(fetchTasks, d) :
                          /\ fetchTasks' = fetchTasks \ {task}
                          /\ out'[1] = Emit("duelProblemAssigned", ToRoom(d), new.problem)
      ]_vars

\* a third connection has joined the active d1 while its one request to the
\* Problem Source is pending
C27_Witness ==
    /\ <<"d1">> \in DOMAIN activeDuels
    /\ activeDuels[<<"d1">>].status = "active"
    /\ activeDuels[<<"d1">>].problem = NoProblem
    /\ activeDuels[<<"d1">>].nFetch = 1
    /\ Cardinality(PendingFetches(fetchTasks, <<"d1">>)) = 1
    /\ Len(out) >= 1 /\ out[1].ev = "assignedRole" /\ out[1].to = ToSocket("s3")

\* C28: a joinDuel of d by the user id of an occupied competitor slot binds
\* that slot to the calling connection and changes nothing else of the slot
\* (code, language, solved flag and submission time stay, whatever initial
\* code and language the rejoin carries), nor the other slot, the status, the
\* winner or the problem of the room.
C28_RejoinRebindsOnly ==
    [][\A d \in DOMAIN activeDuels :
          (IsJoinDuelStep(d) /\ ExistingRole(activeDuels[d], out'[1].arg[2]) # "none") =>
              LET old  == activeDuels[d]
                  new  == activeDuels'[d]
                  role == ExistingRole(old, out'[1].arg[2])
              IN  /\ out'[1].arg[1] = role
                  /\ new[role] = [old[role] EXCEPT !.socketId = out'[1].to[2]]
                  /\ new[OtherRole(role)] = old[OtherRole(role)]
                  /\ new.status = old.status
                  /\ new.winner = old.winner
                  /\ new.problem = old.problem
      ]_vars

\* u2, who joined d1 from s2 with the code "x" and solved the problem, has
\* joined again from s3: the slot is bound to s3 and holds what it held
C28_Witness ==
    /\ <<"d1">> \in DOMAIN activeDuels
    /\ activeDuels[<<"d1">>].competitor2 =
          [socketId |-> "s3", userId |-> "u2", code |-> "x", language |-> "cpp",
           solvedProblem |-> TRUE, submissionTime |-> 1]
    /\ activeDuels[<<"d1">>].competitor1.userId = "u1"
    /\ activeDuels[<<"d1">>].status = "finished"
    /\ activeDuels[<<"d1">>].winner = "u2"
    /\ activeDuels[<<"d1">>].problem = "p2"
    /\ Len(out) >= 1 /\ out[1] = Emit("assignedRole", ToSocket("s3"), <<"competitor2", "u2">>)

\* what the claim reads of a room
RoomView(room) ==
    <<room.competitor1, room.competitor2, room.spectators, room.status,
      room.winner, room.problem>>

\* the step handles joinDuel (or its continuation after the Problem Source),
\* codeUpdate, languageUpdate or problemSolved for duel id d
IsDuelEventFor(d) ==
    \/ IsJoinDuelStep(d)
    \/ /\ out' # << >>
       /\ out'[1].to = ToRoom(d)
       /\ out'[1].ev \in {"duelProblemAssigned", "duelError", "competitorCodeUpdated",
                          "competitorLanguageUpdated", "competitorSolved"}

\* the step is a step of a joinHall or kickFromHall handler for tournament t
IsHallEventFor(t) ==
    \E task \in hallTasks :
        task.t = t /\ task.kind \in {"joinHall", "kick"} /\ task \notin hallTasks'

\* C29: a room whose slots, spectators, status, winner or problem change in a
\* step, or that is created or removed in it, is the room of the duel event
\* handled in that step, so the event leaves every other room as it was; a
\* hall whose participant map changes is the hall of the joinHall or
\* kickFromHall handled in that step.
C29_OtherRoomsAndHallsUntouched ==
    [][/\ \A d \in DOMAIN activeDuels \cup DOMAIN activeDuels' :
             \/ /\ d \in DOMAIN activeDuels /\ d \in DOMAIN activeDuels'
                /\ RoomView(activeDuels'[d]) = RoomView(activeDuels[d])
             \/ IsDuelEventFor(d)
       /\ \A t \in DOMAIN activeHalls :
             \/ /\ t \in DOMAIN activeHalls'
                /\ activeHalls'[t].participants = activeHalls[t].participants
             \/ IsHallEventFor(t)
      ]_vars

\* u1 is competitor1 of d1 and of d2; d1 was finished by u2's solve, and u1's
\* edit of d2 that followed left d1 as it was
C29_Witness ==
    /\ DOMAIN activeDuels = FreeDuelIds
    /\ activeDuels[<<"d1">>].status = "finished"
    /\ activeDuels[<<"d1">>].winner = "u2"
    /\ activeDuels[<<"d1">>].competitor1.code = "// Start coding..."
    /\ activeDuels[<<"d1">>].competitor1.userId = "u1"
    /\ activeDuels[<<"d2">>].competitor1.code = "x"
    /\ activeDuels[<<"d2">>].status = "active"
    /\ out = <<Emit("competitorCodeUpdated", ToRoom(<<"d2">>), <<"u1", "competitor1", "x">>)>>

\* C30: in every state between two steps, a room in status active has both
\* competitor slots occupied and a room in status waiting has at most one.
C30_StatusMatchesSlots ==
    \A d \in DOMAIN activeDuels :
        /\ activeDuels[d].status = "active" => Occupied(activeDuels[d]) = Roles
        /\ activeDuels[d].status = "waiting" => Cardinality(Occupied(activeDuels[d])) <= 1

\* u1 has left the active d1: the room is finished with one slot occupied
C30_Witness ==
    /\ <<"d1">> \in DOMAIN activeDuels
    /\ activeDuels[<<"d1">>].status = "finished"
    /\ activeDuels[<<"d1">>].forfeitedBy["competitor1"] = "u1"
    /\ Occupied(activeDuels[<<"d1">>]) = {"competitor2"}
    /\ Len(out) = 2 /\ out[1].ev = "duelEnded" /\ out[2].ev = "userLeft"

\* C31: a finished room has a winner; in the step that finishes a room the
\* winner is the user id of one of the two competitors the room had before the
\* step; and no step changes the winner or the status of a finished room that
\* stays registered.
C31_FinishedHasLastingWinner ==
    [][\A d \in DOMAIN activeDuels' :
          LET old == RoomBefore(d)
              new == activeDuels'[d]
          IN  /\ new.status = "finished" => new.winner # NoWinner
              /\ (old.status # "finished" /\ new.status = "finished")
                    => /\ d \in DOMAIN activeDuels
                       /\ new.winner \in {old.competitor1.userId, old.competitor2.userId}
                       /\ new.winner # NoUser
              /\ (d \in DOMAIN activeDuels /\ old.status = "finished")
                    => (new.status = "finished" /\ new.winner = old.winner)
      ]_vars

\* d1 was won by u1's solve; u2 has left it since and the winner is still u1
C31_Witness ==
    /\ <<"d1">> \in DOMAIN activeDuels
    /\ activeDuels[<<"d1">>].status = "finished"
    /\ activeDuels[<<"d1">>].winner = "u1"
    /\ activeDuels[<<"d1">>].competitor1.solvedProblem
    /\ activeDuels[<<"d1">>].competitor2 = NoComp
    /\ Len(out) = 1 /\ out[1].ev = "userLeft"

\* C32: a problemSolved sent by a connection that is not the one bound to the
\* named competitor slot changes no room.
C32_SolveOnlyFromBoundConnection ==
    [][\A s \in Sockets, u \in Users, role \in Roles, t \in SubmissionTimes :
          (/\ <<"d1">> \in DOMAIN activeDuels
           /\ activeDuels[<<"d1">>][role].socketId # s
           /\ ProblemSolved(s, <<"d1">>, u, role, t))
              => activeDuels' = activeDuels
      ]_vars

\* the connection s was unbound from slot role of room d by a rejoin of the
\* slot's user from another connection, and the slot has been held since
Superseded(s, d, role) ==
    /\ d \in DOMAIN activeDuels
    /\ activeDuels[d].superseded[role] = s
    /\ activeDuels[d][role] # NoComp
    /\ activeDuels[d][role].socketId # s

\* the disconnect leaves the slot, the status and the winner of room d
KeepsDuel(d, role) ==
    /\ d \in DOMAIN activeDuels'
    /\ activeDuels'[d][role] = activeDuels[d][role]
    /\ activeDuels'[d].status = activeDuels[d].status
    /\ activeDuels'[d].winner = activeDuels[d].winner

RoundPair(d) ==
    {u \in RegUsers : \E t \in Tournaments, v \in RegUsers, now \in NowValues :
        d \in {TourneyDuelId(t, u, v, now), TourneyDuelId(t, v, u, now)}}

\* C34: the competitor slots of a room created by startTournamentRound hold
\* only users of the pair the room was created for.
C34_RoundRoomHoldsItsPair ==
    \A d \in DOMAIN activeDuels :
        activeDuels[d].tournamentId # NoTournament =>
            \A role \in Roles :
                activeDuels[d][role].userId \in RoundPair(d) \cup {NoUser}

\* the rating the match records hold for user u: the new rating of the last
\* record u is part of, the default rating when there is none
RecordedRating(u) ==
    LET mine == {i \in 1..Len(duelMatches) :
                    u \in {duelMatches[i].playerOneId, duelMatches[i].playerTwoId}}
        last == CHOOSE i \in mine : \A j \in mine : j <= i
    IN  IF mine = {} THEN DefaultRating
        ELSE IF duelMatches[last].playerOneId = u
        THEN duelMatches[last].playerOneNewRating
        ELSE duelMatches[last].playerTwoNewRating

\* C35: whenever no rating update is under way, the stored rating of every
\* user is the one the match records account for: a duel has changed both
\* ratings and left a record, or changed no rating and left none.
C35_RatingsAllOrNothing ==
    eloTasks = {} => \A u \in RegUsers : userRating[u] = RecordedRating(u)

\* the room was finished by the disconnect of one of its competitors
Forfeited(room) ==
    \E role \in Roles : room.forfeitedBy[role] # NoUser

\* C36: a room finished by forfeit stays finished, no ratingsUpdated is ever
\* emitted for it and no rating update is ever under way for it; no
\* problemSolved is accepted on it; and every rating write, match record and
\* ratingsUpdated is the step of a rating update of a room that was not
\* forfeited.
C36_ForfeitIsNeverRated ==
    [][/\ \A d \in DOMAIN activeDuels' :
             Forfeited(activeDuels'[d])
                => /\ activeDuels'[d].nRatings = 0
                   /\ activeDuels'[d].status = "finished"
       /\ \A task \in eloTasks' :
             ~Forfeited(IF task.room = AttachedRoom
                        THEN activeDuels'[task.duelId] ELSE task.room)
       /\ IsAcceptedSolveStep => ~Forfeited(activeDuels[out'[1].to[2]])
       /\ (userRating' # userRating \/ duelMatches' # duelMatches \/ Emits("ratingsUpdated"))
             => \E task \in eloTasks : task \notin eloTasks' /\ ~Forfeited(TaskRoom(task))
      ]_vars

\* u1 has left the active d1, whose problem is attached: u2 won by forfeit,
\* has not solved, and what was sent since changed nothing
C36_Witness ==
    /\ <<"d1">> \in DOMAIN activeDuels
    /\ activeDuels[<<"d1">>].forfeitedBy["competitor1"] = "u1"
    /\ activeDuels[<<"d1">>].status = "finished"
    /\ activeDuels[<<"d1">>].winner = "u2"
    /\ activeDuels[<<"d1">>].problem = "p1"
    /\ ~activeDuels[<<"d1">>].competitor2.solvedProblem
    /\ \A u \in RegUsers : userRating[u] = DefaultRating
    /\ duelMatches = << >> /\ eloTasks = {} /\ out = << >>

\* C37: every entry of a hall's participant map is bound to a connection
\* that is connected.
C37_HallEntriesAreConnected ==
    \A t \in DOMAIN activeHalls :
        \A u \in DOMAIN activeHalls[t].participants :
            connected[activeHalls[t].participants[u]] = "open"

\* C39: a problem is attached to a room, and duelProblemAssigned is broadcast
\* to a duel id, only in the step of a request of the room that is registered
\* under that id and is active before and after the step.
C39_ProblemOnlyForActiveRegisteredRoom ==
    [][/\ \A d \in DOMAIN activeDuels' :
             activeDuels'[d].problem # RoomBefore(d).problem
                => /\ d \in DOMAIN activeDuels
                   /\ activeDuels[d].status = "active"
       /\ \A i \in 1..Len(out') :
             (out'[i].ev = "duelProblemAssigned" /\ out'[i].to[1] = "room")
                => LET d == out'[i].to[2]
                   IN  /\ PendingFetches(fetchTasks, d) # {}
                       /\ fetchTasks' \subseteq fetchTasks
                       /\ activeDuels[d].status = "active"
                       /\ activeDuels'[d].problem = out'[i].arg
      ]_vars

(***************************************************************************)
(* Properties of calculateElo.                                             *)
(***************************************************************************)
\* the calls of calculateElo that have returned
Returned ==
    {call \in eloTasks : call.pc = "return"}

\* C16: for equal ratings r a score of 1 gives A r + 16 and B r - 16, a score of
\* 0 gives A r - 16 and B r + 16, so gain and loss have the same magnitude and
\* the sum of the two ratings is unchanged; in particular for r = 1200.
C16_EqualRatingsWinLoseSixteen ==
    \A call \in Returned :
        (call.old1 = call.old2 /\ call.score1x2 \in {0, 2}) =>
            /\ call.new1 = call.old1 + (IF call.score1x2 = 2 THEN 16 ELSE -16)
            /\ call.new2 = call.old2 - (IF call.score1x2 = 2 THEN 16 ELSE -16)
            /\ call.new1 + call.new2 = call.old1 + call.old2

\* calculateElo(1200, 1200, 1.0) has returned 1216 and 1184
C16_Witness ==
    \E call \in Returned :
        /\ call.old1 = 1200 /\ call.old2 = 1200 /\ call.score1x2 = 2
        /\ call.new1 = 1216 /\ call.new2 = 1184

\* C17: for equal ratings r a score of 0.5 returns r for both players.
C17_DrawOfEqualsChangesNothing ==
    \A call \in Returned :
        (call.old1 = call.old2 /\ call.score1x2 = 1) =>
            call.new1 = call.old1 /\ call.new2 = call.old2

\* calculateElo(r, r, 0.5) has returned for a rating r other than the default
C17_Witness ==
    \E call \in Returned :
        /\ call.old1 = call.old2 /\ call.old1 # DefaultRating /\ call.score1x2 = 1
        /\ call.new1 = call.old1 /\ call.new2 = call.old2

(***************************************************************************)
(* Properties of the tournament halls.                                     *)
(***************************************************************************)
EventsOf(events, ev) ==
    {i \in 1..Len(events) : events[i].ev = ev}

\* the step is the pairing of a round that was accepted
IsPairingStep ==
    out' # << >> /\ out'[1].ev = "tournamentStatusUpdate"

\* the participants of the hall of t whose connection is still open
LiveParticipants(t) ==
    {u \in DOMAIN activeHalls[t].participants :
        connected[activeHalls[t].participants[u]] = "open"}

\* the pairing announces the duels and byes that n participants call for
PairingFits(n) ==
    /\ Cardinality(EventsOf(out', "newTournamentDuel")) = n \div 2
    /\ Cardinality(EventsOf(out', "tournamentMessage")) = n % 2

\* C9: the pairing of an accepted round over the n participants of the hall
\* announces n div 2 duels, no participant in two of them, and sends n mod 2
\* bye notifications; n is taken either as the size of the hall's participant
\* map or as the number of its participants whose connection is open, whichever
\* the pairing fits.
C9_PairsAndByes ==
    [][IsPairingStep =>
          LET duels == EventsOf(out', "newTournamentDuel")
          IN  /\ \/ PairingFits(Cardinality(DOMAIN activeHalls["t1"].participants))
                 \/ PairingFits(Cardinality(LiveParticipants("t1")))
              /\ \A i, j \in duels :
                    /\ out'[i].arg[2] # out'[i].arg[3]
                    /\ i # j => {out'[i].arg[2], out'[i].arg[3]}
                                   \cap {out'[j].arg[2], out'[j].arg[3]} = {}
      ]_vars

\* C12: for a pending tournament with maxParticipants set, the number of active
\* participation records never exceeds maxParticipants.
C12_ActiveRecordsWithinCapacity ==
    \A t \in DOMAIN tournamentDb :
        (tournamentDb[t].status = "PENDING" /\ tournamentDb[t].maxParticipants # 0)
            => CountActive(t) <= tournamentDb[t].maxParticipants

\* the step ends a joinHall of connection s with success
IsJoinHallSuccess(s) ==
    out' # << >> /\ out'[Len(out')] = Callback(s, TRUE, "")

\* C13: a hall maps each user id to one connection id, a connection of that
\* user; a joinHall of user u from connection c that succeeds leaves the hall's
\* entry for u bound to c, whatever connection it was bound to before, and
\* leaves the entries of the other users as they were.
C13_LatestJoinHallWins ==
    [][/\ \A t \in DOMAIN activeHalls' :
             /\ activeHalls'[t].participants
                    \in [DOMAIN activeHalls'[t].participants -> Sockets]
             /\ \A u \in DOMAIN activeHalls'[t].participants :
                    authUser[activeHalls'[t].participants[u]] = u
       /\ \A c \in Sockets :
             IsJoinHallSuccess(c) =>
                 LET before == activeHalls["t1"].participants
                     after == activeHalls'["t1"].participants
                 IN  /\ authUser[c] \in DOMAIN after
                     /\ after[authUser[c]] = c
                     /\ DOMAIN after = DOMAIN before \cup {authUser[c]}
                     /\ \A v \in DOMAIN before : v # authUser[c] => after[v] = before[v]
      ]_vars

\* u2 joined the hall from s2, and a joinHall of u2 from s3 has just succeeded
\* while s2 is still connected
C13_Witness ==
    /\ out # << >> /\ out[Len(out)] = Callback("s3", TRUE, "")
    /\ activeHalls["t1"].participants["u2"] = "s3"
    /\ connected["s2"] = "open"
    /\ currentTournamentHallId["s2"] = "t1"
    /\ participantDb[<<"t1", "u2">>] = "active"
    /\ hallTasks = {}

\* the kick request of the task comes from the organizer, names another user,
\* and the hall existed when it arrived
KickByOrganizer(task) ==
    /\ task.kind = "kick"
    /\ task.hall
    /\ task.t \in DOMAIN tournamentDb /\ task.t \in DOMAIN activeHalls
    /\ tournamentDb[task.t].organizerId = authUser[task.s]
    /\ task.target # authUser[task.s]

\* C23: a kick by the organizer against a user present in the hall removes that
\* user, and nobody else, from the hall's participant map when the request is
\* checked, and marks that user's participation record, and no other, inactive
\* when the storage update returns; against a user absent from the map the
\* request ends at the check with no hall and no record changed.
C23_KickRemovesAndDeactivates ==
    [][\A task \in hallTasks :
          KickByOrganizer(task) =>
              LET before == activeHalls[task.t].participants
                  key == <<task.t, task.target>>
              IN  /\ (KickCheck(task) /\ task.target \in DOMAIN before)
                        => /\ DOMAIN activeHalls'[task.t].participants
                                  = DOMAIN before \ {task.target}
                           /\ \A u \in DOMAIN before \ {task.target} :
                                  activeHalls'[task.t].participants[u] = before[u]
                           /\ \E next \in hallTasks' :
                                  /\ next.s = task.s /\ next.pc = "deactivate"
                                  /\ next.target = task.target
                  /\ (KickCheck(task) /\ task.target \notin DOMAIN before)
                        => /\ activeHalls' = activeHalls
                           /\ participantDb' = participantDb
                           /\ hallTasks' = hallTasks \ {task}
                  /\ KickDeactivate(task, TRUE)
                        => /\ key \in DOMAIN participantDb
                           /\ participantDb'[key] = "inactive"
                           /\ \A k \in DOMAIN participantDb \ {key} :
                                  participantDb'[k] = participantDb[k]
                           /\ DOMAIN participantDb' = DOMAIN participantDb
      ]_vars

\* the organizer's kick of u2 has just completed: u2 is out of the hall's map
\* and u2's participation record is inactive
C23_Witness ==
    /\ out # << >>
    /\ out[Len(out)] = Emit("hallActionSuccess", ToSocket("s1"), "u2")
    /\ "u2" \notin DOMAIN activeHalls["t1"].participants
    /\ "u1" \in DOMAIN activeHalls["t1"].participants
    /\ participantDb[<<"t1", "u2">>] = "inactive"

\* C24: the pairing of a round leaves every room that is registered as it is,
\* and registers for each pair it announces a room that was not registered
\* before: waiting, without competitors and spectators, with the tournament id;
\* the pairs of one round get pairwise distinct duel ids.
C24_RoundCreatesNewRooms ==
    [][IsPairingStep =>
          LET duels == EventsOf(out', "newTournamentDuel")
          IN  /\ \A d \in DOMAIN activeDuels :
                    d \in DOMAIN activeDuels' /\ activeDuels'[d] = activeDuels[d]
              /\ \A i \in duels :
                    /\ out'[i].arg[1] \notin DOMAIN activeDuels
                    /\ out'[i].arg[1] \in DOMAIN activeDuels'
                    /\ activeDuels'[out'[i].arg[1]] = NewRoom(out'[i].arg[1], out'[1].to[2])
              /\ \A i, j \in duels : i # j => out'[i].arg[1] # out'[j].arg[1]
      ]_vars

\* C21: the step that rejects a joinHall because the tournament is full changes
\* no hall and no participation record, and the connection remembers the hall
\* it remembered when the joinHall arrived.
C21_FullHallRejectionChangesNothing ==
    [][\A task \in hallTasks :
          (JoinHallCount(task) /\ CountActive(task.t) >= task.max)
              => /\ out' = <<Callback(task.s, FALSE, "Tournament is full.")>>
                 /\ activeHalls' = activeHalls
                 /\ participantDb' = participantDb
                 /\ currentTournamentHallId'[task.s] = task.hallAtCall
      ]_vars

\* C22: the disconnect of a connection removes from a hall's participant map
\* only an entry bound to that connection, the one of its user; every other
\* entry, also the one of the same user bound to another connection, stays as
\* it is; and no disconnect changes a participation record.
C22_DisconnectRemovesOnlyOwnEntry ==
    [][\A s \in Sockets :
          Disconnect(s) =>
              /\ participantDb' = participantDb
              /\ DOMAIN activeHalls' = DOMAIN activeHalls
              /\ \A t \in DOMAIN activeHalls :
                    LET before == activeHalls[t].participants
                        after == activeHalls'[t].participants
                    IN  /\ DOMAIN after \subseteq DOMAIN before
                        /\ \A u \in DOMAIN after : after[u] = before[u]
                        /\ \A u \in DOMAIN before \ DOMAIN after :
                              before[u] = s /\ authUser[s] = u
      ]_vars

\* s2, an older connection of u2, has just disconnected after u2 joined the
\* hall again from s3: u2 is still in the hall, bound to s3
C22_Witness ==
    /\ out = << >> /\ hallTasks = {}
    /\ connected["s1"] = "open" /\ connected["s2"] = "closed" /\ connected["s3"] = "open"
    /\ currentTournamentHallId["s2"] = "t1"
    /\ "u2" \in DOMAIN activeHalls["t1"].participants
    /\ activeHalls["t1"].participants["u2"] = "s3"
    /\ participantDb[<<"t1", "u2">>] = "active"

\* the caller of a kick request is not the organizer, or names itself
KickMustBeRejected(s, t, targetUserId) ==
    \/ targetUserId = authUser[s]
    \/ t \in DOMAIN tournamentDb /\ tournamentDb[t].organizerId # authUser[s]

\* C10: a kick request whose caller is not the organizer of the tournament, or
\* whose target is the caller, changes neither a hall's participant map nor a
\* participation record at any of its steps, and ends at its authorization
\* check with one error event, sent to the caller's connection only.
C10_UnauthorizedKickRejected ==
    [][/\ \A new \in hallTasks' \ hallTasks :
             (/\ new.kind = "kick"
              /\ KickMustBeRejected(new.s, new.t, new.target)
              /\ KickFromHall(new.s, new.t, new.target))
                 => (activeHalls' = activeHalls /\ participantDb' = participantDb
                     /\ out' = << >>)
       /\ \A task \in hallTasks :
             (KickCheck(task) /\ KickMustBeRejected(task.s, task.t, task.target))
                 => /\ activeHalls' = activeHalls
                    /\ participantDb' = participantDb
                    /\ hallTasks' = hallTasks \ {task}
                    /\ Len(out') = 1
                    /\ out'[1].ev = "hallError"
                    /\ out'[1].to = ToSocket(task.s)
      ]_vars

\* the organizer u1, present in its hall, has just been refused kicking itself
C10_Witness ==
    /\ out = <<HallError("s1", "Cannot kick self.")>>
    /\ "t1" \in DOMAIN activeHalls
    /\ DOMAIN activeHalls["t1"].participants = {"u1", "u2"}
    /\ participantDb[<<"t1", "u1">>] = "active"

\* C38: a startTournamentRound that sets a tournament with random pairing
\* active and reports success to the connected organizer announces at least
\* one duel and reports at least one.
C38_StartedRoundHasADuel ==
    [][(/\ IsPairingStep
        /\ \E i \in EventsOf(out', "hallActionSuccess") : connected[out'[i].to[2]] = "open"
        /\ tournamentDb'[out'[1].to[2]].pairingSystem = "RANDOM")
          => /\ EventsOf(out', "newTournamentDuel") # {}
             /\ \A i \in EventsOf(out', "hallActionSuccess") : out'[i].arg >= 1
      ]_vars

====
